---------------------------- MODULE Spec2Model ----------------------------
(***************************************************************************)
(* A model of ColorPy's colour conversions:                                *)
(*   colormodels.py  init, rgb_from_xyz, xyz_from_rgb,                     *)
(*                   brightest_rgb_from_xyz, luv_from_xyz, xyz_from_luv,   *)
(*                   lab_from_xyz, xyz_from_lab, init_clipping,            *)
(*                   init_gamma_correction, clip_rgb_color, irgb_from_rgb, *)
(*                   rgb_from_irgb, irgb_from_irgb_string                  *)
(*   clipping.py     clip_color_clamp, clip_color_whiten, clip_color,      *)
(*                   clip_intensity, scale_int_from_float,                 *)
(*                   hexstring_from_irgb, irgb_from_hexstring              *)
(*   gamma.py        GammaConverterPower, GammaConverterSrgbReference,     *)
(*                   GammaConverterFunction, GammaConverterHybrid and the  *)
(*                   predefined converters                                 *)
(*                                                                         *)
(* Numbers.  A Python float is modelled as an exact rational <<n, d>> in   *)
(* lowest terms with d > 0, so +, -, *, / and the comparisons are those of *)
(* the reals (the 2^-53 relative rounding of each IEEE operation is not    *)
(* modelled).  math.pow is exact where its result is a rational that fits, *)
(* and is otherwise computed to PowBits binary digits, rounded down.  A    *)
(* Python string is a sequence of one-character strings.                   *)
(*                                                                         *)
(* Calls.  The program is single threaded: one call runs at a time.  op    *)
(* names the call that has just returned ("idle" when its result has been  *)
(* consumed), arg its argument, ret what it returned or raised.  The       *)
(* module globals that init and the init_ functions set, and the caller's  *)
(* hybrid gamma converter, last from call to call.                         *)
(***************************************************************************)
EXTENDS Integers, Sequences, FiniteSets, TLC

VARIABLES
    clip_method,        \* colormodels._clip_method
    display_fn,         \* colormodels.display_from_linear_component
    linear_fn,          \* colormodels.linear_from_display_component
    gamma_exponent,     \* colormodels.gamma_exponent
    python3,            \* the interpreter: TRUE for Python 3, FALSE for Python 2
    op,                 \* the call that has just returned, or "idle"
    arg,                \* its argument(s)
    rgb,                \* the caller's array passed to the call, as the call left it
    ret,                \* [kind |-> "ok", value |-> ...] or [kind |-> <exception>]
    stage,              \* clip_rgb_color's local rgb after each of its steps
    converter,          \* the caller's GammaConverterHybrid object, once constructed
    calls,              \* how many of its methods have changed it since
    device              \* colormodels' phosphors, conversion matrices and white point

vars == <<clip_method, display_fn, linear_fn, gamma_exponent, python3,
          op, arg, rgb, ret, stage, converter, calls, device>>

config == <<clip_method, display_fn, linear_fn, gamma_exponent>>

-----------------------------------------------------------------------------
(* Exact rational arithmetic: the model of Python's float operators.       *)

Abs(i) == IF i < 0 THEN -i ELSE i

RECURSIVE Gcd(_, _)
Gcd(a, b) == IF b = 0 THEN a ELSE Gcd(b, a % b)

\* The rational n/d (d # 0) in lowest terms with a positive denominator.
Rat(n, d) ==
    LET g == Gcd(Abs(n), Abs(d))
        s == IF d < 0 THEN -1 ELSE 1
    IN  <<s * (n \div g), s * (d \div g)>>

RInt(i) == <<i, 1>>

RZero == RInt(0)

ROne == RInt(1)

RNeg(a) == <<-a[1], a[2]>>

RAdd(a, b) ==
    LET g == Gcd(a[2], b[2])
    IN  Rat(a[1] * (b[2] \div g) + b[1] * (a[2] \div g), (a[2] \div g) * b[2])

RSub(a, b) == RAdd(a, RNeg(b))

RMul(a, b) ==
    LET g1 == Gcd(Abs(a[1]), b[2])
        g2 == Gcd(Abs(b[1]), a[2])
    IN  IF a[1] = 0 \/ b[1] = 0 THEN RZero
        ELSE <<(a[1] \div g1) * (b[1] \div g2), (a[2] \div g2) * (b[2] \div g1)>>

\* a / b for b # 0.
RDiv(a, b) == RMul(a, Rat(b[2], b[1]))

\* a < b, by comparing the continued fractions: no common denominator is formed.
RECURSIVE RLess(_, _)
RLess(a, b) ==
    LET fa == a[1] \div a[2]
        fb == b[1] \div b[2]
        ra == a[1] % a[2]
        rb == b[1] % b[2]
    IN  IF fa # fb THEN fa < fb
        ELSE IF ra = 0 THEN rb > 0
        ELSE IF rb = 0 THEN FALSE
        ELSE RLess(<<b[2], rb>>, <<a[2], ra>>)

RLt(a, b) == RLess(a, b)

RLe(a, b) == ~RLess(b, a)

RGt(a, b) == RLt(b, a)

\* Python's min(a, b) and max(a, b): the first argument wins a tie.
RMin(a, b) == IF RLt(b, a) THEN b ELSE a

RMax(a, b) == IF RGt(b, a) THEN b ELSE a

\* min(rgb) and max(rgb) of a three-element array.
Min3(v) == RMin(RMin(v[1], v[2]), v[3])

Max3(v) == RMax(RMax(v[1], v[2]), v[3])

\* rgb *= scaling on a numpy array: every element is multiplied.
Scale3(v, s) == <<RMul(v[1], s), RMul(v[2], s), RMul(v[3], s)>>

IMin(a, b) == IF b < a THEN b ELSE a

IMax(a, b) == IF b > a THEN b ELSE a

\* floor(a) of a rational.
RFloor(a) == a[1] \div a[2]

\* round(a): to the nearest integer; a tie goes to the even neighbour in
\* Python 3 and away from zero in Python 2.
Round(a, halfEven) ==
    LET f    == RFloor(a)
        frac == RSub(a, RInt(f))
        half == Rat(1, 2)
    IN  IF RLt(frac, half) THEN f
        ELSE IF RGt(frac, half) THEN f + 1
        ELSE IF halfEven THEN (IF f % 2 = 0 THEN f ELSE f + 1)
        ELSE (IF f >= 0 THEN f + 1 ELSE f)

-----------------------------------------------------------------------------
(* math.pow(x, a/b) for a rational x > 0 and integers a, b >= 1.           *)
(* The work is done in a binary floating point <<m, e>> = m * 2^e with     *)
(* 2^(PowBits-1) <= m < 2^PowBits, every product rounded down; the result  *)
(* is the largest such float y with y^b <= x^a.                            *)

PowBits == 14

\* The float just below or at m + r/d (0 <= r < d, m + r/d > 0), by long
\* division: one more binary digit of r/d for each step down of the exponent.
RECURSIVE FNorm(_, _, _, _)
FNorm(m, r, d, e) ==
    IF m >= 2^PowBits THEN FNorm(m \div 2, 0, d, e + 1)
    ELSE IF m < 2^(PowBits - 1)
    THEN (IF 2 * r >= d THEN FNorm(2 * m + 1, 2 * r - d, d, e - 1)
          ELSE FNorm(2 * m, 2 * r, d, e - 1))
    ELSE <<m, e>>

FromRat(x) == FNorm(x[1] \div x[2], x[1] % x[2], x[2], 0)

\* The rational a float stands for; below 2^-30 the low digits of the
\* mantissa are dropped, as they are of a subnormal.
ToRat(f) ==
    IF f[2] >= 0 THEN RInt(f[1] * 2^f[2])
    ELSE IF f[2] >= -30 THEN Rat(f[1], 2^(-f[2]))
    ELSE Rat(f[1] \div 2^(-f[2] - 30), 2^30)

FMul(f, g) ==
    LET q == (f[1] * g[1]) \div 2^(PowBits - 1)
    IN  IF q >= 2^PowBits THEN <<q \div 2, f[2] + g[2] + PowBits>>
        ELSE <<q, f[2] + g[2] + PowBits - 1>>

\* f^n, n >= 1, by squaring.
RECURSIVE FPow(_, _)
FPow(f, n) ==
    IF n = 1 THEN f
    ELSE IF n % 2 = 0 THEN LET h == FPow(f, n \div 2) IN FMul(h, h)
    ELSE FMul(FPow(f, n - 1), f)

FLe(f, g) == f[2] < g[2] \/ (f[2] = g[2] /\ f[1] <= g[1])

\* The largest mantissa m in lo..hi-1 with <<m, e>>^b <= target, given that
\* lo satisfies it and hi does not.
RECURSIVE RootSearch(_, _, _, _, _)
RootSearch(lo, hi, e, b, target) ==
    IF hi - lo <= 1 THEN lo
    ELSE LET mid == (lo + hi) \div 2
         IN  IF FLe(FPow(<<mid, e>>, b), target)
             THEN RootSearch(mid, hi, e, b, target)
             ELSE RootSearch(lo, mid, e, b, target)

\* The b-th root of a float: its binade is that of 2^j with j the largest
\* integer such that 2^(j*b) <= target, and its mantissa is searched for.
FRoot(target, b) ==
    LET j == (target[2] + PowBits - 1) \div b
        e == j - (PowBits - 1)
    IN  <<RootSearch(2^(PowBits - 1), 2^PowBits, e, b, target), e>>

\* math.pow (x, a/b), x > 0, in floating point.
PowFloat(x, a, b) == ToRat(FRoot(FPow(FromRat(x), a), b))

\* The largest integer the exact powers below may reach.
IntMax == 2^30 - 2 + 2^30

\* m^e for m >= 1, e >= 0, by squaring, or IntMax + 1 when that is more than
\* IntMax.
RECURSIVE IntPow(_, _)
IntPow(m, e) ==
    IF e = 0 THEN 1
    ELSE IF e % 2 = 0
    THEN LET h == IntPow(m, e \div 2)
         IN  IF h > IntMax \div h THEN IntMax + 1 ELSE h * h
    ELSE LET p == IntPow(m, e - 1)
         IN  IF p > IntMax \div m THEN IntMax + 1 ELSE p * m

\* The largest r in lo..hi-1 with r^b <= n, given lo^b <= n < hi^b.
RECURSIVE IntRootSearch(_, _, _, _)
IntRootSearch(lo, hi, n, b) ==
    IF hi - lo <= 1 THEN lo
    ELSE LET mid == (lo + hi) \div 2
         IN  IF IntPow(mid, b) <= n THEN IntRootSearch(mid, hi, n, b)
             ELSE IntRootSearch(lo, mid, n, b)

\* The integer part of the b-th root of n, 1 <= n <= IntMax.
IntRoot(n, b) == IF b = 1 THEN n ELSE IntRootSearch(1, IMin(n, 2^16) + 1, n, b)

\* x is the b-th power of a rational whose a-th power has terms up to IntMax.
HasExactPow(x, a, b) ==
    LET rn == IntRoot(x[1], b)
        rd == IntRoot(x[2], b)
    IN  /\ x[1] <= IntMax /\ x[2] <= IntMax
        /\ IntPow(rn, b) = x[1] /\ IntPow(rd, b) = x[2]
        /\ IntPow(rn, a) <= IntMax /\ IntPow(rd, a) <= IntMax

\* math.pow (x, a/b), x > 0: the exact value where that is a rational the
\* model can hold, the floating point value otherwise.
Pow(x, a, b) ==
    IF HasExactPow(x, a, b)
    THEN <<IntPow(IntRoot(x[1], b), a), IntPow(IntRoot(x[2], b), a)>>
    ELSE PowFloat(x, a, b)

-----------------------------------------------------------------------------
(* colormodels.py: gamma correction of one component.                      *)

\* STANDARD_GAMMA = 2.2
STANDARD_GAMMA == Rat(22, 10)

\* def simple_gamma_invert (x): x if x <= 0.0 else math.pow (x, 1.0 / gamma_exponent)
simple_gamma_invert(x, gamma) ==
    IF RLe(x, RZero) THEN x ELSE Pow(x, gamma[2], gamma[1])

\* def simple_gamma_correct (x): x if x <= 0.0 else math.pow (x, gamma_exponent)
simple_gamma_correct(x, gamma) ==
    IF RLe(x, RZero) THEN x ELSE Pow(x, gamma[1], gamma[2])

\* def srgb_gamma_invert (x)
srgb_gamma_invert(x) ==
    IF RLe(x, Rat(304, 100000))
    THEN RMul(Rat(1292, 100), x)
    ELSE RSub(RMul(Rat(1055, 1000), Pow(x, 5, 12)), Rat(55, 1000))

\* def srgb_gamma_correct (x)
srgb_gamma_correct(x) ==
    IF RLe(x, Rat(3928, 100000))
    THEN RDiv(x, Rat(1292, 100))
    ELSE Pow(RDiv(RAdd(x, Rat(55, 1000)), Rat(1055, 1000)), 12, 5)

\* The two functions init_gamma_correction can install in each direction.
GammaFunctions == {"srgb", "simple"}

\* display_from_linear_component (x), the installed function being fn.
display_from_linear_component(fn, gamma, x) ==
    IF fn = "srgb" THEN srgb_gamma_invert(x) ELSE simple_gamma_invert(x, gamma)

\* linear_from_display_component (x), the installed function being fn.
linear_from_display_component(fn, gamma, x) ==
    IF fn = "srgb" THEN srgb_gamma_correct(x) ELSE simple_gamma_correct(x, gamma)

-----------------------------------------------------------------------------
(* gamma.py: the gamma converter classes.  A converter object is a record  *)
(* of its class (kind) and its attributes.  gamma.py has its own copies of *)
(* the four functions above, simple_gamma_invert and simple_gamma_correct  *)
(* taking the exponent as their second argument.                           *)

\* The quotient of two floats, rounded down.
FDiv(f, g) ==
    LET q == (f[1] * 2^PowBits) \div g[1]
    IN  IF q >= 2^PowBits THEN <<q \div 2, f[2] - g[2] - PowBits + 1>>
        ELSE <<q, f[2] - g[2] - PowBits>>

\* a / b for a, b > 0 where a or b may be a floating point power: exact
\* where the terms of the quotient are small enough for a float to hold it as
\* the model holds a decimal constant, rounded down to the float otherwise.
PowQuotient(a, b) ==
    LET g1 == Gcd(a[1], b[1])
        g2 == Gcd(a[2], b[2])
    IN  IF /\ a[1] \div g1 <= 2^PowBits \div (b[2] \div g2)
           /\ a[2] \div g2 <= 2^PowBits \div (b[1] \div g1)
        THEN RDiv(a, b)
        ELSE ToRat(FDiv(FromRat(a), FromRat(b)))

\* class GammaConverterPower: __init__ (gamma)
GammaConverterPower(gamma) == [kind |-> "power", gamma |-> gamma]

\* class GammaConverterSrgbReference: no attributes.
GammaConverterSrgbReference == [kind |-> "srgb_reference"]

\* class GammaConverterFunction: __init__ (display_from_linear_func, linear_from_display_func)
GammaConverterFunction(display_from_linear_func, linear_from_display_func) ==
    [kind |-> "function",
     display_from_linear_func |-> display_from_linear_func,
     linear_from_display_func |-> linear_from_display_func]

\* A call of one of the module's functions through a reference to it.
CallFunction(func, x) ==
    IF func = "srgb_gamma_invert" THEN srgb_gamma_invert(x)
    ELSE srgb_gamma_correct(x)

\* GammaConverterHybrid.set_continuous_slope: K0 and Phi from gamma and a.
set_continuous_slope(c) ==
    LET gamma_1    == RSub(c.gamma, ROne)
        K0_better  == RDiv(c.a, gamma_1)
        Phi_term_1 == Pow(c.one_plus_a, c.gamma[1], c.gamma[2])
        Phi_term_2 == Pow(gamma_1, gamma_1[1], gamma_1[2])
        Phi_term_3 == Pow(c.a, gamma_1[1], gamma_1[2])
        Phi_term_4 == Pow(c.gamma, c.gamma[1], c.gamma[2])
        Phi_better == PowQuotient(RMul(Phi_term_1, Phi_term_2),
                                  RMul(Phi_term_3, Phi_term_4))
    IN  [c EXCEPT !.K0 = K0_better,
                  !.Phi = Phi_better,
                  !.K0_over_Phi = RDiv(K0_better, Phi_better)]

\* GammaConverterHybrid.__init__ (gamma, a, K0, Phi, improve)
GammaConverterHybrid(gamma, a, K0, Phi, improve) ==
    LET self == [kind        |-> "hybrid",
                 gamma       |-> gamma,
                 a           |-> a,
                 one_plus_a  |-> RAdd(ROne, a),
                 inv_gamma   |-> RDiv(ROne, gamma),
                 K0          |-> K0,
                 Phi         |-> Phi,
                 K0_over_Phi |-> RDiv(K0, Phi)]
    IN  IF improve THEN set_continuous_slope(self) ELSE self

\* lhs = math.pow ((K0 + a) / one_plus_a, gamma), of improve_K0 and improve_Phi.
ContinuityLhs(c) ==
    Pow(RDiv(RAdd(c.K0, c.a), c.one_plus_a), c.gamma[1], c.gamma[2])

\* GammaConverterHybrid.improve_K0: only K0 is assigned.
improve_K0(c) == [c EXCEPT !.K0 = RMul(c.Phi, ContinuityLhs(c))]

\* GammaConverterHybrid.improve_Phi: Phi and K0_over_Phi are assigned.
improve_Phi(c) ==
    LET Phi_better == RDiv(c.K0, ContinuityLhs(c))
    IN  [c EXCEPT !.Phi = Phi_better, !.K0_over_Phi = RDiv(c.K0, Phi_better)]

\* GammaConverterHybrid.set_continuous_only: for i in range(4): self.improve_Phi()
set_continuous_only(c) == improve_Phi(improve_Phi(improve_Phi(improve_Phi(c))))

\* A display_from_linear whose power branch forgets to take the offset off.
HybridDisplayFromLinearOffsetKept(c, linear) ==
    IF RLess(linear, c.K0_over_Phi)
    THEN RMul(c.Phi, linear)
    ELSE RMul(c.one_plus_a, Pow(linear, c.inv_gamma[1], c.inv_gamma[2]))

\* GammaConverterHybrid.display_from_linear
HybridDisplayFromLinear(c, linear) ==
    IF RLess(linear, c.K0_over_Phi)
    THEN RMul(c.Phi, linear)
    ELSE RSub(RMul(c.one_plus_a, Pow(linear, c.inv_gamma[1], c.inv_gamma[2])), c.a)

\* GammaConverterHybrid.linear_from_display
HybridLinearFromDisplay(c, display) ==
    IF RLess(display, c.K0)
    THEN RDiv(display, c.Phi)
    ELSE Pow(RDiv(RAdd(display, c.a), c.one_plus_a), c.gamma[1], c.gamma[2])

\* converter.display_from_linear (linear), by the class of the converter.
display_from_linear(c, linear) ==
    CASE c.kind = "power"          -> simple_gamma_invert(linear, c.gamma)
      [] c.kind = "srgb_reference" -> srgb_gamma_invert(linear)
      [] c.kind = "function"       -> CallFunction(c.display_from_linear_func, linear)
      [] c.kind = "hybrid"         -> HybridDisplayFromLinear(c, linear)

\* converter.linear_from_display (display), by the class of the converter.
linear_from_display(c, display) ==
    CASE c.kind = "power"          -> simple_gamma_correct(display, c.gamma)
      [] c.kind = "srgb_reference" -> srgb_gamma_correct(display)
      [] c.kind = "function"       -> CallFunction(c.linear_from_display_func, display)
      [] c.kind = "hybrid"         -> HybridLinearFromDisplay(c, display)

\* srgb_gamma_converter = GammaConverterHybrid (gamma=2.4, a=0.055, K0=0.03928, Phi=12.92)
srgb_gamma_converter ==
    GammaConverterHybrid(Rat(24, 10), Rat(55, 1000), Rat(3928, 100000), Rat(1292, 100), TRUE)

\* uhdtv10_gamma_converter = GammaConverterHybrid (gamma=(1.0/0.45), a=0.099, K0=(4.5*0.018), Phi=4.5)
uhdtv10_gamma_converter ==
    GammaConverterHybrid(Rat(100, 45), Rat(99, 1000), Rat(81, 1000), Rat(45, 10), TRUE)

\* uhdtv12_gamma_converter = GammaConverterHybrid (gamma=(1.0/0.45), a=0.0993, K0=(4.5*0.0181), Phi=4.5)
uhdtv12_gamma_converter ==
    GammaConverterHybrid(Rat(100, 45), Rat(993, 10000), Rat(8145, 100000), Rat(45, 10), TRUE)

-----------------------------------------------------------------------------
(* clipping.py: the clip functions.  Each modifies the array it is given;  *)
(* the operator returns the array as the call leaves it and the flag the   *)
(* call returns.                                                           *)

CLIP_CLAMP_TO_ZERO == 0

CLIP_ADD_WHITE == 1

\* A clamp that mirrors a negative component instead of zeroing it.
ClampComponentMirrored(x) == IF RLt(x, RZero) THEN RNeg(x) ELSE x

\* if rgb [i] < 0.0: rgb [i] = 0.0
ClampComponent(x) == IF RLt(x, RZero) THEN RZero ELSE x

\* def clip_color_clamp(rgb)
clip_color_clamp(v) ==
    [rgb     |-> <<ClampComponent(v[1]), ClampComponent(v[2]), ClampComponent(v[3])>>,
     clipped |-> RLt(v[1], RZero) \/ RLt(v[2], RZero) \/ RLt(v[3], RZero)]

\* A whitening whose scaling stays at its initial 1.0.
WhitenScalingUnscaled(rgb_max, rgb_min) == ROne

\* scaling = 1.0; if rgb_max > 0.0: scaling = rgb_max / (rgb_max - rgb_min)
WhitenScaling(rgb_max, rgb_min) ==
    IF RGt(rgb_max, RZero) THEN RDiv(rgb_max, RSub(rgb_max, rgb_min)) ELSE ROne

\* def clip_color_whiten(rgb)
clip_color_whiten(v) ==
    LET rgb_min == RMin(RZero, Min3(v))
        rgb_max == Max3(v)
        scaling == WhitenScaling(rgb_max, rgb_min)
    IN  IF RLt(rgb_min, RZero)
        THEN [rgb     |-> <<RMul(scaling, RSub(v[1], rgb_min)),
                            RMul(scaling, RSub(v[2], rgb_min)),
                            RMul(scaling, RSub(v[3], rgb_min))>>,
              clipped |-> TRUE]
        ELSE [rgb |-> v, clipped |-> FALSE]

\* def clip_color(rgb, clip_method=CLIP_ADD_WHITE)
clip_color(v, method) ==
    IF method = CLIP_CLAMP_TO_ZERO
    THEN [kind |-> "ok"] @@ clip_color_clamp(v)
    ELSE IF method = CLIP_ADD_WHITE
    THEN [kind |-> "ok"] @@ clip_color_whiten(v)
    ELSE [kind |-> "ValueError", rgb |-> v, clipped |-> FALSE]

\* A cutoff a whole step, not half a step, above 1.0.
IntensityCutoffWholeStep(max_value) == RAdd(ROne, RDiv(ROne, RInt(max_value)))

\* intensity_cutoff = 1.0 + (0.5 / max_value)
IntensityCutoff(max_value) == RAdd(ROne, RDiv(Rat(1, 2), RInt(max_value)))

\* def clip_intensity(rgb, max_value)
clip_intensity(v, max_value) ==
    LET rgb_max          == Max3(v)
        intensity_cutoff == IntensityCutoff(max_value)
    IN  IF RGt(rgb_max, intensity_cutoff)
        THEN [rgb |-> Scale3(v, RDiv(intensity_cutoff, rgb_max)), clipped |-> TRUE]
        ELSE [rgb |-> v, clipped |-> FALSE]

\* ir = round (max_value * rgb [i]); ir = min (max_value, max (0, ir))
QuantizeComponent(x, max_value, halfEven) ==
    IMin(max_value, IMax(0, Round(RMul(RInt(max_value), x), halfEven)))

\* def scale_int_from_float(rgb, max_value)
scale_int_from_float(v, max_value, halfEven) ==
    <<QuantizeComponent(v[1], max_value, halfEven),
      QuantizeComponent(v[2], max_value, halfEven),
      QuantizeComponent(v[3], max_value, halfEven)>>

-----------------------------------------------------------------------------
(* colormodels.py: clip_rgb_color, which repeats the steps inline on a     *)
(* private copy of its argument, with max_value fixed at 255.              *)

\* The 255 of clip_rgb_color's cutoff and quantization.
MaxValue8 == 255

\* A chromaticity clip that knows only CLIP_CLAMP_TO_ZERO.
ChromaticityClipClampOnly(v, method) ==
    IF method = CLIP_CLAMP_TO_ZERO
    THEN [kind    |-> "ok",
          rgb     |-> <<ClampComponent(v[1]), ClampComponent(v[2]), ClampComponent(v[3])>>,
          clipped |-> RLt(v[1], RZero) \/ RLt(v[2], RZero) \/ RLt(v[3], RZero)]
    ELSE [kind |-> "ValueError", rgb |-> v, clipped |-> FALSE]

\* A chromaticity clip that reports a clip whenever it is asked to add white.
ChromaticityClipAlwaysFlagged(v, method) ==
    IF method = CLIP_CLAMP_TO_ZERO
    THEN [kind    |-> "ok",
          rgb     |-> <<ClampComponent(v[1]), ClampComponent(v[2]), ClampComponent(v[3])>>,
          clipped |-> RLt(v[1], RZero) \/ RLt(v[2], RZero) \/ RLt(v[3], RZero)]
    ELSE IF method = CLIP_ADD_WHITE
    THEN LET rgb_min == RMin(RZero, Min3(v))
             rgb_max == Max3(v)
             scaling == WhitenScaling(rgb_max, rgb_min)
         IN  [kind    |-> "ok",
              rgb     |-> <<RMul(scaling, RSub(v[1], rgb_min)),
                            RMul(scaling, RSub(v[2], rgb_min)),
                            RMul(scaling, RSub(v[3], rgb_min))>>,
              clipped |-> TRUE]
    ELSE [kind |-> "ValueError", rgb |-> v, clipped |-> FALSE]

\* clip_rgb_color: "clip chromaticity if needed (negative rgb values)".
ChromaticityClip(v, method) ==
    IF method = CLIP_CLAMP_TO_ZERO
    THEN [kind    |-> "ok",
          rgb     |-> <<ClampComponent(v[1]), ClampComponent(v[2]), ClampComponent(v[3])>>,
          clipped |-> RLt(v[1], RZero) \/ RLt(v[2], RZero) \/ RLt(v[3], RZero)]
    ELSE IF method = CLIP_ADD_WHITE
    THEN LET rgb_min == RMin(RZero, Min3(v))
             rgb_max == Max3(v)
             scaling == WhitenScaling(rgb_max, rgb_min)
         IN  IF RLt(rgb_min, RZero)
             THEN [kind    |-> "ok",
                   rgb     |-> <<RMul(scaling, RSub(v[1], rgb_min)),
                                 RMul(scaling, RSub(v[2], rgb_min)),
                                 RMul(scaling, RSub(v[3], rgb_min))>>,
                   clipped |-> TRUE]
             ELSE [kind |-> "ok", rgb |-> v, clipped |-> FALSE]
    ELSE [kind |-> "ValueError", rgb |-> v, clipped |-> FALSE]

\* An intensity clip whose cutoff is 1.0 itself.
IntensityClipAtOne(v) ==
    LET rgb_max == Max3(v)
    IN  IF RGt(rgb_max, ROne)
        THEN [rgb |-> Scale3(v, RDiv(ROne, rgb_max)), clipped |-> TRUE]
        ELSE [rgb |-> v, clipped |-> FALSE]

\* clip_rgb_color: "clip intensity if needed (rgb values > 1.0) by scaling".
IntensityClip(v) ==
    LET rgb_max          == Max3(v)
        intensity_cutoff == RAdd(ROne, RDiv(Rat(1, 2), RInt(MaxValue8)))
    IN  IF RGt(rgb_max, intensity_cutoff)
        THEN [rgb |-> Scale3(v, RDiv(intensity_cutoff, rgb_max)), clipped |-> TRUE]
        ELSE [rgb |-> v, clipped |-> FALSE]

\* clip_rgb_color: "gamma correction".
GammaCorrect(v, fn, gamma) ==
    <<display_from_linear_component(fn, gamma, v[1]),
      display_from_linear_component(fn, gamma, v[2]),
      display_from_linear_component(fn, gamma, v[3])>>

\* clip_rgb_color: "scale to 0 - 255" and "ensure that values are in the range 0-255".
Quantize(v, halfEven) ==
    <<IMin(MaxValue8, IMax(0, Round(RMul(RInt(MaxValue8), v[1]), halfEven))),
      IMin(MaxValue8, IMax(0, Round(RMul(RInt(MaxValue8), v[2]), halfEven))),
      IMin(MaxValue8, IMax(0, Round(RMul(RInt(MaxValue8), v[3]), halfEven)))>>

\* A clip_rgb_color that clips the intensity of the colour it is given, and
\* the chromaticity after it.
clip_rgb_color_intensity_first(rgb_color, method, fn, gamma, halfEven) ==
    LET intensity == IntensityClip(rgb_color)
        chroma    == ChromaticityClip(intensity.rgb, method)
        corrected == GammaCorrect(chroma.rgb, fn, gamma)
        irgb      == Quantize(corrected, halfEven)
    IN  IF chroma.kind = "ok"
        THEN [kind      |-> "ok",
              irgb      |-> irgb,
              flags     |-> <<chroma.clipped, intensity.clipped>>,
              chroma    |-> chroma.rgb,
              intensity |-> intensity.rgb,
              gamma     |-> corrected]
        ELSE [kind |-> "ValueError"]

\* def clip_rgb_color (rgb_color): the value returned (or the exception raised),
\* and the local rgb after each step.
clip_rgb_color(rgb_color, method, fn, gamma, halfEven) ==
    LET chroma    == ChromaticityClip(rgb_color, method)
        intensity == IntensityClip(chroma.rgb)
        corrected == GammaCorrect(intensity.rgb, fn, gamma)
        irgb      == Quantize(corrected, halfEven)
    IN  IF chroma.kind = "ok"
        THEN [kind      |-> "ok",
              irgb      |-> irgb,
              flags     |-> <<chroma.clipped, intensity.clipped>>,
              chroma    |-> chroma.rgb,
              intensity |-> intensity.rgb,
              gamma     |-> corrected]
        ELSE [kind |-> "ValueError"]

-----------------------------------------------------------------------------
(* clipping.py: conversions between integer colours and hex strings.       *)

HexChars == <<"0", "1", "2", "3", "4", "5", "6", "7",
              "8", "9", "A", "B", "C", "D", "E", "F">>

LowerHexChars == <<"0", "1", "2", "3", "4", "5", "6", "7",
                   "8", "9", "a", "b", "c", "d", "e", "f">>

\* '%X' % n for n >= 0: the uppercase hexadecimal digits of n, no padding.
RECURSIVE FormatX(_)
FormatX(n) ==
    IF n < 16 THEN <<HexChars[n + 1]>>
    ELSE FormatX(n \div 16) \o <<HexChars[(n % 16) + 1]>>

\* The '0<width>' of the format: zeros on the left up to the width.
RECURSIVE ZeroPad(_, _)
ZeroPad(s, width) == IF Len(s) >= width THEN s ELSE ZeroPad(<<"0">> \o s, width)

\* '%X' % n: the width of the format forgotten.
FormatHexUnpadded(n, num_digits) == FormatX(n)

\* '%0<num_digits>X' % n
FormatHex(n, num_digits) == ZeroPad(FormatX(n), num_digits)

\* num_values = 1; for i in range(num_digits): num_values *= 0x10
NumValues(num_digits) == 16^num_digits

\* An encoder that clamps to num_values, one above the largest value.
hexstring_from_irgb_clamped_high(irgb, num_digits) ==
    LET max_value == NumValues(num_digits)
        ir == IMin(max_value, IMax(0, irgb[1]))
        ig == IMin(max_value, IMax(0, irgb[2]))
        ib == IMin(max_value, IMax(0, irgb[3]))
    IN  <<"#">> \o FormatHex(ir, num_digits) \o FormatHex(ig, num_digits)
              \o FormatHex(ib, num_digits)

\* def hexstring_from_irgb (irgb, num_digits=2)
hexstring_from_irgb(irgb, num_digits) ==
    LET max_value == NumValues(num_digits) - 1
        ir == IMin(max_value, IMax(0, irgb[1]))
        ig == IMin(max_value, IMax(0, irgb[2]))
        ib == IMin(max_value, IMax(0, irgb[3]))
    IN  <<"#">> \o FormatHex(ir, num_digits) \o FormatHex(ig, num_digits)
              \o FormatHex(ib, num_digits)

\* The value of one hexadecimal digit character, -1 for any other character.
DigitValue(c) ==
    IF \E i \in 1..16 : HexChars[i] = c
    THEN (CHOOSE i \in 1..16 : HexChars[i] = c) - 1
    ELSE IF \E i \in 1..16 : LowerHexChars[i] = c
    THEN (CHOOSE i \in 1..16 : LowerHexChars[i] = c) - 1
    ELSE -1

IsSpace(c) == c = " "

RECURSIVE LStrip(_)
LStrip(s) == IF s # <<>> /\ IsSpace(Head(s)) THEN LStrip(Tail(s)) ELSE s

RECURSIVE RStrip(_)
RStrip(s) ==
    IF s # <<>> /\ IsSpace(s[Len(s)]) THEN RStrip(SubSeq(s, 1, Len(s) - 1)) ELSE s

\* The digits of an integer literal: at least one, and in Python 3 (3.6 on) a
\* single underscore may stand between two digits, or before the first digit
\* when a base prefix came before it.  -1 when the text is no literal.
RECURSIVE DigitsValue(_, _, _, _, _)
DigitsValue(s, acc, sawDigit, mayUnderscore, py3) ==
    IF s = <<>> THEN (IF sawDigit THEN acc ELSE -1)
    ELSE IF Head(s) = "_"
    THEN (IF py3 /\ mayUnderscore /\ Len(s) >= 2 /\ DigitValue(s[2]) >= 0
          THEN DigitsValue(Tail(s), acc, sawDigit, FALSE, py3)
          ELSE -1)
    ELSE IF DigitValue(Head(s)) >= 0
    THEN DigitsValue(Tail(s), 16 * acc + DigitValue(Head(s)), TRUE, TRUE, py3)
    ELSE -1

\* int (text, 0x10): surrounding whitespace is dropped, then an optional sign,
\* an optional 0x or 0X, and the digits.  [kind |-> "ok", value |-> n], or
\* [kind |-> "ValueError"] ("invalid literal for int() with base 16").
ParseInt16(text, py3) ==
    LET t      == RStrip(LStrip(text))
        signed == t # <<>> /\ Head(t) \in {"+", "-"}
        u      == IF signed THEN Tail(t) ELSE t
        prefix == Len(u) >= 2 /\ u[1] = "0" /\ u[2] \in {"x", "X"}
        digits == IF prefix THEN SubSeq(u, 3, Len(u)) ELSE u
        n      == DigitsValue(digits, 0, FALSE, prefix, py3)
    IN  IF n < 0 THEN [kind |-> "ValueError"]
        ELSE [kind |-> "ok", value |-> IF signed /\ Head(t) = "-" THEN -n ELSE n]

\* hexstring [lo:hi], a Python slice with 0 <= lo <= hi: it never raises.
Slice(s, lo, hi) == SubSeq(s, lo + 1, IMin(hi, Len(s)))

\* irgb_color (ir, ig, ib) from three parsed components.
ParsedColor(r, g, b) ==
    IF r.kind = "ok" /\ g.kind = "ok" /\ b.kind = "ok"
    THEN [kind |-> "ok", value |-> <<r.value, g.value, b.value>>]
    ELSE [kind |-> "ValueError"]

\* def irgb_from_hexstring (hexstring)
irgb_from_hexstring(hexstring, py3) ==
    IF hexstring = <<>> THEN [kind |-> "IndexError"]      \* hexstring [0]
    ELSE IF hexstring[1] # "#" THEN [kind |-> "ValueError"]
    ELSE LET num_all_digits == Len(hexstring) - 1
             num_digits     == num_all_digits \div 3
             remainder      == num_all_digits % 3
         IN  IF remainder # 0 THEN [kind |-> "ValueError"]
             ELSE ParsedColor(
                 ParseInt16(Slice(hexstring, 1, 1 + num_digits), py3),
                 ParseInt16(Slice(hexstring, 1 + num_digits, 1 + 2 * num_digits), py3),
                 ParseInt16(Slice(hexstring, 1 + 2 * num_digits, 1 + 3 * num_digits), py3))

\* def irgb_from_irgb_string (irgb_string), colormodels.py
irgb_from_irgb_string(irgb_string, py3) ==
    IF Len(irgb_string) # 7 THEN [kind |-> "ValueError"]
    ELSE IF irgb_string[1] # "#" THEN [kind |-> "ValueError"]
    ELSE ParsedColor(ParseInt16(Slice(irgb_string, 1, 3), py3),
                     ParseInt16(Slice(irgb_string, 3, 5), py3),
                     ParseInt16(Slice(irgb_string, 5, 7), py3))

-----------------------------------------------------------------------------
(* colormodels.py: conversions between linear rgb and displayable irgb.    *)

\* def irgb_from_rgb (rgb): the irgb of clip_rgb_color (rgb), or what it raises.
irgb_from_rgb(v, method, fn, gamma, halfEven) ==
    LET result == clip_rgb_color(v, method, fn, gamma, halfEven)
    IN  IF result.kind = "ok" THEN [kind |-> "ok", value |-> result.irgb]
        ELSE [kind |-> result.kind]

\* An rgb_from_irgb that scales by the number of levels, 256.
rgb_from_irgb_by_levels(irgb, fn, gamma) ==
    <<linear_from_display_component(fn, gamma, Rat(irgb[1], MaxValue8 + 1)),
      linear_from_display_component(fn, gamma, Rat(irgb[2], MaxValue8 + 1)),
      linear_from_display_component(fn, gamma, Rat(irgb[3], MaxValue8 + 1))>>

\* def rgb_from_irgb (irgb): scale to 0.0 - 1.0, then gamma adjustment.
rgb_from_irgb(irgb, fn, gamma) ==
    <<linear_from_display_component(fn, gamma, Rat(irgb[1], MaxValue8)),
      linear_from_display_component(fn, gamma, Rat(irgb[2], MaxValue8)),
      linear_from_display_component(fn, gamma, Rat(irgb[3], MaxValue8))>>

-----------------------------------------------------------------------------
(* colormodels.py: the device, and the conversions between xyz and rgb.    *)
(* A matrix is its three rows.  numpy.linalg.solve and numpy.linalg.inv    *)
(* are the exact solution and the exact inverse; both raise LinAlgError on *)
(* a singular matrix.                                                      *)

\* def xyz_color (x, y, z = None), z omitted: x + y + z = 1.0.
xyz_color(x, y) == <<x, y, RSub(ROne, RAdd(x, y))>>

SRGB_Red == xyz_color(Rat(640, 1000), Rat(330, 1000))

SRGB_Green == xyz_color(Rat(300, 1000), Rat(600, 1000))

SRGB_Blue == xyz_color(Rat(150, 1000), Rat(60, 1000))

SRGB_White == xyz_color(Rat(3127, 10000), Rat(3290, 10000))

xyz_normalize_by_Y(xyz) ==
    IF RAdd(RAdd(xyz[1], xyz[2]), xyz[3]) # RZero /\ xyz[2] # RZero
    THEN Scale3(xyz, RDiv(ROne, xyz[2]))
    ELSE xyz

\* def xyz_normalize (xyz): what the array xyz holds when it returns.  scale is
\* computed once, before the first component is overwritten.
xyz_normalize(xyz) ==
    LET sum_xyz == RAdd(RAdd(xyz[1], xyz[2]), xyz[3])
    IN  IF sum_xyz # RZero THEN Scale3(xyz, RDiv(ROne, sum_xyz)) ELSE xyz

\* def xyz_normalize_Y1 (xyz): what the array xyz holds when it returns.
xyz_normalize_Y1(xyz) ==
    IF xyz[2] # RZero THEN Scale3(xyz, RDiv(ROne, xyz[2])) ELSE xyz

\* numpy.column_stack ((a, b, c))
column_stack(a, b, c) == <<<<a[1], b[1], c[1]>>, <<a[2], b[2], c[2]>>, <<a[3], b[3], c[3]>>>>

\* numpy.dot (m, v) of a matrix and a vector.
dot(m, v) ==
    [i \in 1..3 |-> RAdd(RAdd(RMul(m[i][1], v[1]), RMul(m[i][2], v[2])), RMul(m[i][3], v[3]))]

\* The determinant of the 2 x 2 matrix left of m without row i and column j.
Minor(m, i, j) ==
    LET r == IF i = 1 THEN <<2, 3>> ELSE IF i = 2 THEN <<1, 3>> ELSE <<1, 2>>
        c == IF j = 1 THEN <<2, 3>> ELSE IF j = 2 THEN <<1, 3>> ELSE <<1, 2>>
    IN  RSub(RMul(m[r[1]][c[1]], m[r[2]][c[2]]), RMul(m[r[1]][c[2]], m[r[2]][c[1]]))

Cofactor(m, i, j) == IF (i + j) % 2 = 0 THEN Minor(m, i, j) ELSE RNeg(Minor(m, i, j))

Det3(m) ==
    RAdd(RAdd(RMul(m[1][1], Cofactor(m, 1, 1)), RMul(m[1][2], Cofactor(m, 1, 2))),
         RMul(m[1][3], Cofactor(m, 1, 3)))

\* numpy.linalg.solve (m, b) for a matrix m that is not singular.
solve(m, b) ==
    [j \in 1..3 |->
        RDiv(Det3([i \in 1..3 |-> [k \in 1..3 |-> IF k = j THEN b[i] ELSE m[i][k]]]),
             Det3(m))]

inv_of_cofactors(m) == [i \in 1..3 |-> [j \in 1..3 |-> RDiv(Cofactor(m, i, j), Det3(m))]]

\* numpy.linalg.inv (m) for a matrix m that is not singular.
inv(m) == [i \in 1..3 |-> [j \in 1..3 |-> RDiv(Cofactor(m, j, i), Det3(m))]]

uv_primes_unguarded(xyz) ==
    LET w_denom == RAdd(RAdd(xyz[1], RMul(RInt(15), xyz[2])), RMul(RInt(3), xyz[3]))
    IN  <<RDiv(RMul(RInt(4), xyz[1]), w_denom), RDiv(RMul(RInt(9), xyz[2]), w_denom)>>

\* def uv_primes (xyz)
uv_primes(xyz) ==
    LET w_denom == RAdd(RAdd(xyz[1], RMul(RInt(15), xyz[2])), RMul(RInt(3), xyz[3]))
    IN  IF w_denom # RZero
        THEN <<RDiv(RMul(RInt(4), xyz[1]), w_denom), RDiv(RMul(RInt(9), xyz[2]), w_denom)>>
        ELSE <<RZero, RZero>>

\* def init_Luv_Lab_white_point (white_point), on the device d.
init_Luv_Lab_white_point(d, white_point) ==
    LET reference_white == xyz_normalize_Y1(white_point)
    IN  [d EXCEPT !.reference_white   = reference_white,
                  !.reference_u_prime = uv_primes(reference_white)[1],
                  !.reference_v_prime = uv_primes(reference_white)[2]]

\* How numpy.linalg.solve and numpy.linalg.inv (LAPACK's gesv) treat a matrix
\* that has no inverse.  They raise LinAlgError only when a pivot of the LU
\* factorization is exactly 0.0.  On a matrix with a column of zeros the pivot
\* is 0.0 whatever the rounding; on any other the rounding of the elimination
\* decides, and differs with the build (division or multiplication by the
\* reciprocal, fused multiply-add or not): either the pivot is 0.0 and the
\* call raises, or it is a rounding error and the call returns numbers of
\* the size of its reciprocal.  A run names which of the two each call does.
LapackRuns == [solve : BOOLEAN, inv : BOOLEAN]

\* The run in which both calls find the zero pivot.
Detecting == [solve |-> TRUE, inv |-> TRUE]

ZeroColumn(m) == \E j \in 1..3 : \A i \in 1..3 : m[i][j] = RZero

\* What solve returns for a singular matrix whose zero pivot it missed: large
\* intensities, two of them of opposite sign (in a double, of the size of
\* 10^16).  The numbers stand for whatever the factorization leaves; they
\* solve nothing.
UnsolvedIntensities == <<RInt(-1000), RInt(1000), RInt(1000)>>

\* def init (phosphor_red, phosphor_green, phosphor_blue, white_point), up to
\* its calls of init_gamma_correction and init_clipping: the device it leaves
\* and whether it raised, in the run lapack.  The phosphors are assigned first,
\* xyz_from_rgb_matrix after solve, rgb_from_xyz_matrix after inv: a
\* LinAlgError leaves what was assigned before it.  xyz_from_rgb_matrix is
\* phosphor_matrix with column j scaled by intensities[j], so its inverse is
\* the inverse of phosphor_matrix with row j divided by intensities[j], and is
\* computed so; it has an inverse exactly when phosphor_matrix has one and no
\* intensity is 0 (an intensity that is 0 here is in a double 0.0 or a
\* rounding error, so that it too is for the run to find).  Where inv misses
\* the zero pivot of a singular xyz_from_rgb_matrix, what it returns is
\* stood for by the rows of the phosphors.
init(d, phosphor_red, phosphor_green, phosphor_blue, white_point, lapack) ==
    LET named == [d EXCEPT !.PhosphorRed   = phosphor_red,
                           !.PhosphorGreen = phosphor_green,
                           !.PhosphorBlue  = phosphor_blue,
                           !.PhosphorWhite = white_point]
        phosphor_matrix  == column_stack(phosphor_red, phosphor_green, phosphor_blue)
        singular         == Det3(phosphor_matrix) = RZero
        normalized_white == xyz_normalize_Y1(white_point)
        intensities      == IF singular THEN UnsolvedIntensities
                            ELSE solve(phosphor_matrix, normalized_white)
        xyz_from_rgb_matrix ==
            column_stack(Scale3(phosphor_red, intensities[1]),
                         Scale3(phosphor_green, intensities[2]),
                         Scale3(phosphor_blue, intensities[3]))
        solved == [named EXCEPT !.xyz_from_rgb_matrix = xyz_from_rgb_matrix]
        no_inverse == singular \/ \E i \in 1..3 : intensities[i] = RZero
        rgb_from_xyz_matrix ==
            IF no_inverse THEN <<phosphor_red, phosphor_green, phosphor_blue>>
            ELSE [i \in 1..3 |-> Scale3(inv(phosphor_matrix)[i], RDiv(ROne, intensities[i]))]
    IN  IF singular /\ (lapack.solve \/ ZeroColumn(phosphor_matrix))
        THEN [kind |-> "LinAlgError", device |-> named]
        ELSE IF no_inverse /\ lapack.inv
        THEN [kind |-> "LinAlgError", device |-> solved]
        ELSE [kind   |-> "ok",
              device |-> init_Luv_Lab_white_point(
                             [solved EXCEPT !.rgb_from_xyz_matrix = rgb_from_xyz_matrix],
                             white_point)]

\* def rgb_from_xyz (xyz)
rgb_from_xyz(d, xyz) == dot(d.rgb_from_xyz_matrix, xyz)

\* def xyz_from_rgb (rgb)
xyz_from_rgb(d, rgb_color) == dot(d.xyz_from_rgb_matrix, rgb_color)

brightest_rgb_from_xyz_not_divided(d, xyz, max_component) ==
    LET rgb_color == rgb_from_xyz(d, xyz)
        max_rgb   == Max3(rgb_color)
    IN  IF max_rgb # RZero THEN Scale3(rgb_color, max_component) ELSE rgb_color

\* def brightest_rgb_from_xyz (xyz, max_component=1.0)
brightest_rgb_from_xyz(d, xyz, max_component) ==
    LET rgb_color == rgb_from_xyz(d, xyz)
        max_rgb   == Max3(rgb_color)
    IN  IF max_rgb # RZero
        THEN Scale3(rgb_color, RDiv(max_component, max_rgb))
        ELSE rgb_color

-----------------------------------------------------------------------------
(* colormodels.py: the conversions between xyz and Luv, Lab.  (percept.py  *)
(* holds the same functions, the white point passed as an argument.)       *)
(* L_LUM_C = 903.29629551307664 and LAB_F_A = 7.7870370302851422 are       *)
(* carried as 24389/27 and 841/108, the nearest fractions whose products   *)
(* stay in 32 bits; they agree with the source to 9 figures.               *)

L_LUM_A == 116

L_LUM_B == 16

L_LUM_C == Rat(24389, 27)

L_LUM_CUTOFF == Rat(8856, 1000000)

\* def L_luminance (y)
L_luminance(y) ==
    IF RGt(y, L_LUM_CUTOFF)
    THEN RSub(RMul(RInt(L_LUM_A), Pow(y, 1, 3)), RInt(L_LUM_B))
    ELSE RMul(L_LUM_C, y)

\* def L_luminance_inverse (L)
L_luminance_inverse(L) ==
    IF RLe(L, RMul(L_LUM_C, L_LUM_CUTOFF))
    THEN RDiv(L, L_LUM_C)
    ELSE Pow(RDiv(RAdd(L, RInt(L_LUM_B)), RInt(L_LUM_A)), 3, 1)

\* def uv_primes_inverse (u_prime, v_prime, y)
uv_primes_inverse(u_prime, v_prime, y) ==
    IF v_prime # RZero
    THEN LET w_denom == RDiv(RMul(RInt(9), y), v_prime)
             x       == RMul(RMul(Rat(1, 4), u_prime), w_denom)
             z       == RDiv(RSub(RSub(w_denom, x), RMul(RInt(15), y)), RInt(3))
         IN  <<x, y, z>>
    ELSE <<RZero, RZero, RZero>>

\* def luv_from_xyz (xyz)
luv_from_xyz(d, xyz) ==
    LET y_p == RDiv(xyz[2], d.reference_white[2])
        uv  == uv_primes(xyz)
        L   == L_luminance(y_p)
    IN  <<L,
          RMul(RMul(RInt(13), L), RSub(uv[1], d.reference_u_prime)),
          RMul(RMul(RInt(13), L), RSub(uv[2], d.reference_v_prime))>>

xyz_from_luv_black_at_no_v(d, luv) ==
    LET y == L_luminance_inverse(luv[1])
    IN  IF luv[1] # RZero /\ luv[3] # RZero
        THEN uv_primes_inverse(
                 RAdd(d.reference_u_prime, RDiv(luv[2], RMul(RInt(13), luv[1]))),
                 RAdd(d.reference_v_prime, RDiv(luv[3], RMul(RInt(13), luv[1]))),
                 y)
        ELSE <<RZero, RZero, RZero>>

\* def xyz_from_luv (luv)
xyz_from_luv(d, luv) ==
    LET y == L_luminance_inverse(luv[1])
    IN  IF luv[1] # RZero
        THEN uv_primes_inverse(
                 RAdd(d.reference_u_prime, RDiv(luv[2], RMul(RInt(13), luv[1]))),
                 RAdd(d.reference_v_prime, RDiv(luv[3], RMul(RInt(13), luv[1]))),
                 y)
        ELSE <<RZero, RZero, RZero>>

LAB_F_A == Rat(841, 108)

LAB_F_B == Rat(16, 116)

\* def Lab_f (t)
Lab_f(t) ==
    IF RGt(t, L_LUM_CUTOFF) THEN Pow(t, 1, 3) ELSE RAdd(RMul(LAB_F_A, t), LAB_F_B)

\* def Lab_f_inverse (F)
Lab_f_inverse(F) ==
    IF RLe(F, RAdd(RMul(LAB_F_A, L_LUM_CUTOFF), LAB_F_B))
    THEN RDiv(RSub(F, LAB_F_B), LAB_F_A)
    ELSE Pow(F, 3, 1)

\* def lab_from_xyz (xyz)
lab_from_xyz(d, xyz) ==
    LET x_p == RDiv(xyz[1], d.reference_white[1])
        y_p == RDiv(xyz[2], d.reference_white[2])
        z_p == RDiv(xyz[3], d.reference_white[3])
    IN  <<L_luminance(y_p),
          RMul(RInt(500), RSub(Lab_f(x_p), Lab_f(y_p))),
          RMul(RInt(200), RSub(Lab_f(y_p), Lab_f(z_p)))>>

xyz_from_lab_b_added(d, Lab) ==
    LET y_p == L_luminance_inverse(Lab[1])
        f_y == Lab_f(y_p)
        f_x == RAdd(f_y, RDiv(Lab[2], RInt(500)))
        f_z == RAdd(f_y, RDiv(Lab[3], RInt(200)))
    IN  <<RMul(Lab_f_inverse(f_x), d.reference_white[1]),
          RMul(y_p, d.reference_white[2]),
          RMul(Lab_f_inverse(f_z), d.reference_white[3])>>

\* def xyz_from_lab (Lab)
xyz_from_lab(d, Lab) ==
    LET y_p == L_luminance_inverse(Lab[1])
        f_y == Lab_f(y_p)
        f_x == RAdd(f_y, RDiv(Lab[2], RInt(500)))
        f_z == RSub(f_y, RDiv(Lab[3], RInt(200)))
    IN  <<RMul(Lab_f_inverse(f_x), d.reference_white[1]),
          RMul(y_p, d.reference_white[2]),
          RMul(Lab_f_inverse(f_z), d.reference_white[3])>>

-----------------------------------------------------------------------------
(* The inputs of the calls.                                                *)

GridDen == 2

GridMax == 3

MaxDigits == 3

\* The components of a linear rgb colour: a grid around [0, 1], and the
\* intensity cutoff of 8 bits itself.
RgbValues ==
    {Rat(k, GridDen) : k \in -GridMax..GridMax} \cup {IntensityCutoff(MaxValue8)}

\* The colour of the clipping example, (1.2, 0.5, -0.3), and what adding white
\* makes of it, (1.2, 0.64, 0.0).
ExampleRgb == <<Rat(12, 10), Rat(5, 10), Rat(-3, 10)>>

ExampleWhitened == <<Rat(12, 10), Rat(64, 100), RZero>>

RgbInputs == (RgbValues \X RgbValues \X RgbValues) \cup {ExampleRgb, ExampleWhitened}

\* max_value = 2^bitdepth - 1, for 4 and 8 bits.
MaxValues == {2^4 - 1, MaxValue8}

\* What init_clipping may be given: the two methods, and a value that is neither.
ClipMethodArgs == {CLIP_CLAMP_TO_ZERO, CLIP_ADD_WHITE, CLIP_ADD_WHITE + 1}

\* What init_gamma_correction may be given: both functions and the exponent.
GammaArgs ==
    {<<"srgb", "srgb", STANDARD_GAMMA>>,
     <<"simple", "simple", STANDARD_GAMMA>>}

\* The components of an integer colour, in and out of the range of 1 to 3 digits.
IrgbValues == {-12, -1, 0, 18, 128, 255, 256, 4095, 4096}

IrgbInputs == IrgbValues \X IrgbValues \X IrgbValues

\* The texts given to the hex decoders: an optional first character, then three
\* pieces; the decoder sees only the characters.
HexHeads == {<<>>, <<"#">>, <<"F">>}

HexPieces ==
    {<<>>, <<"F">>, <<"0", "a">>, <<"F", "F">>, <<"+", "1">>, <<"-", "1">>,
     <<" ", "7">>, <<"1", "_", "2">>, <<"0", "x", "1">>, <<"G", "0">>,
     <<"1", "0", "2">>}

HexInputs == {h \o a \o b \o c : h \in HexHeads, a \in HexPieces,
                                  b \in HexPieces, c \in HexPieces}

-----------------------------------------------------------------------------
(* The state machine.                                                      *)

NoValue == <<>>

NoReturn == [kind |-> "none"]

\* colormodels' globals before init() has run: all None.
NoDevice ==
    [PhosphorRed |-> NoValue, PhosphorGreen |-> NoValue, PhosphorBlue |-> NoValue,
     PhosphorWhite |-> NoValue, xyz_from_rgb_matrix |-> NoValue,
     rgb_from_xyz_matrix |-> NoValue, reference_white |-> NoValue,
     reference_u_prime |-> NoValue, reference_v_prime |-> NoValue]

\* The module as loaded: init() has run, so the configuration is the default
\* and the device is sRGB.
Init ==
    /\ clip_method = CLIP_ADD_WHITE
    /\ display_fn = "srgb"
    /\ linear_fn = "srgb"
    /\ gamma_exponent = STANDARD_GAMMA
    /\ python3 \in BOOLEAN
    /\ op = "idle"
    /\ arg = NoValue
    /\ rgb = NoValue
    /\ ret = NoReturn
    /\ stage = NoValue
    /\ converter = NoValue
    /\ calls = 0
    /\ device = init(NoDevice, SRGB_Red, SRGB_Green, SRGB_Blue, SRGB_White, Detecting).device

\* A call is made when the one before it has returned.
Idle == op = "idle"

\* def init_clipping (clip_method = CLIP_ADD_WHITE)
InitClipping ==
    /\ Idle
    /\ \E method \in ClipMethodArgs : clip_method' = method
    /\ UNCHANGED <<display_fn, linear_fn, gamma_exponent, python3, device, converter, calls, op, arg, rgb, ret, stage>>

\* def init_gamma_correction (display_from_linear_function, linear_from_display_function, gamma)
InitGammaCorrection ==
    /\ Idle
    /\ \E g \in GammaArgs :
          /\ display_fn' = g[1]
          /\ linear_fn' = g[2]
          /\ gamma_exponent' = g[3]
    /\ UNCHANGED <<clip_method, python3, device, converter, calls, op, arg, rgb, ret, stage>>

ClipRgbColorInPlace ==
    /\ Idle
    /\ \E v \in RgbInputs :
          LET r == clip_rgb_color(v, clip_method, display_fn, gamma_exponent, python3)
          IN  /\ op' = "clip_rgb_color"
              /\ arg' = v
              /\ rgb' = IF r.kind = "ok" THEN r.gamma ELSE v
              /\ ret' = IF r.kind = "ok"
                        THEN [kind |-> "ok", value |-> <<r.irgb, r.flags>>]
                        ELSE [kind |-> r.kind]
              /\ stage' = IF r.kind = "ok"
                          THEN [chroma    |-> r.chroma,
                                intensity |-> r.intensity,
                                gamma     |-> r.gamma]
                          ELSE NoValue
    /\ UNCHANGED <<config, python3, device, converter, calls>>

\* colormodels.clip_rgb_color (rgb_color): works on rgb_color.copy().
ClipRgbColor ==
    /\ Idle
    /\ \E v \in RgbInputs :
          LET r == clip_rgb_color(v, clip_method, display_fn, gamma_exponent, python3)
          IN  /\ op' = "clip_rgb_color"
              /\ arg' = v
              /\ rgb' = v
              /\ ret' = IF r.kind = "ok"
                        THEN [kind |-> "ok", value |-> <<r.irgb, r.flags>>]
                        ELSE [kind |-> r.kind]
              /\ stage' = IF r.kind = "ok"
                          THEN [chroma    |-> r.chroma,
                                intensity |-> r.intensity,
                                gamma     |-> r.gamma]
                          ELSE NoValue
    /\ UNCHANGED <<config, python3, device, converter, calls>>

\* clipping.clip_color (rgb, clip_method): rgb is modified in place.
ClipColor ==
    /\ Idle
    /\ \E v \in RgbInputs, method \in ClipMethodArgs :
          LET r == clip_color(v, method)
          IN  /\ op' = "clip_color"
              /\ arg' = <<v, method>>
              /\ rgb' = r.rgb
              /\ ret' = IF r.kind = "ok" THEN [kind |-> "ok", value |-> r.clipped]
                        ELSE [kind |-> r.kind]
    /\ UNCHANGED <<config, python3, device, converter, calls, stage>>

\* clipping.clip_intensity (rgb, max_value): rgb is modified in place.
ClipIntensity ==
    /\ Idle
    /\ \E v \in RgbInputs, max_value \in MaxValues :
          LET r == clip_intensity(v, max_value)
          IN  /\ op' = "clip_intensity"
              /\ arg' = <<v, max_value>>
              /\ rgb' = r.rgb
              /\ ret' = [kind |-> "ok", value |-> r.clipped]
    /\ UNCHANGED <<config, python3, device, converter, calls, stage>>

\* clipping.scale_int_from_float (rgb, max_value)
ScaleIntFromFloat ==
    /\ Idle
    /\ \E v \in RgbInputs, max_value \in MaxValues :
          /\ op' = "scale_int_from_float"
          /\ arg' = <<v, max_value>>
          /\ rgb' = v
          /\ ret' = [kind  |-> "ok",
                     value |-> scale_int_from_float(v, max_value, python3)]
    /\ UNCHANGED <<config, python3, device, converter, calls, stage>>

\* clipping.hexstring_from_irgb (irgb, num_digits)
HexstringFromIrgb ==
    /\ Idle
    /\ \E irgb \in IrgbInputs, num_digits \in 1..MaxDigits :
          /\ op' = "hexstring_from_irgb"
          /\ arg' = <<irgb, num_digits>>
          /\ ret' = [kind |-> "ok", value |-> hexstring_from_irgb(irgb, num_digits)]
    /\ UNCHANGED <<config, python3, device, converter, calls, rgb, stage>>

\* clipping.irgb_from_hexstring (hexstring)
IrgbFromHexstring ==
    /\ Idle
    /\ \E text \in HexInputs :
          /\ op' = "irgb_from_hexstring"
          /\ arg' = text
          /\ ret' = irgb_from_hexstring(text, python3)
    /\ UNCHANGED <<config, python3, device, converter, calls, rgb, stage>>

\* colormodels.irgb_from_irgb_string (irgb_string)
IrgbFromIrgbString ==
    /\ Idle
    /\ \E text \in HexInputs :
          /\ op' = "irgb_from_irgb_string"
          /\ arg' = text
          /\ ret' = irgb_from_irgb_string(text, python3)
    /\ UNCHANGED <<config, python3, device, converter, calls, rgb, stage>>

\* The caller has taken the result: the next call can be made.
Return ==
    /\ ~Idle
    /\ op' = "idle"
    /\ arg' = NoValue
    /\ rgb' = NoValue
    /\ ret' = NoReturn
    /\ stage' = NoValue
    /\ UNCHANGED <<config, python3, device, converter, calls>>

\* The gamut clipper: its configuration and its clip functions.
Next ==
    \/ InitClipping
    \/ InitGammaCorrection
    \/ ClipRgbColor
    \/ ClipColor
    \/ ClipIntensity
    \/ ScaleIntFromFloat
    \/ Return

Spec == Init /\ [][Next]_vars

\* The integer colour codec.
HexNext ==
    \/ HexstringFromIrgb
    \/ IrgbFromHexstring
    \/ IrgbFromIrgbString
    \/ Return

HexSpec == Init /\ [][HexNext]_vars

-----------------------------------------------------------------------------
(* The gamma converters and the values they are tried on.                  *)
(*                                                                         *)
(* A value is tried in a power branch only where math.pow is exact in the  *)
(* model: it is a power r^n of a small fraction r, n the numerator of the  *)
(* exponent.  The other values are tried in a linear branch, which is      *)
(* exact.                                                                  *)

GammaBaseMax == 4

\* The fractions whose powers are tried.
GammaBases == {Rat(p, q) : p, q \in 1..GammaBaseMax}

\* r^e as a rational, where its terms are within IntMax.
PowerFits(r, e) == IntPow(r[1], e) <= IntMax /\ IntPow(r[2], e) <= IntMax

RPow(r, e) == <<IntPow(r[1], e), IntPow(r[2], e)>>

\* test_gamma_power: gamma_set = [0.17, 0.5, 1.0, 1.3, 2.5, 10.24]
gamma_set == {Rat(17, 100), Rat(5, 10), ROne, Rat(13, 10), Rat(25, 10), Rat(1024, 100)}

\* The sRGB hybrid as published: K0 and Phi are kept.
SrgbHybridUnimproved ==
    GammaConverterHybrid(Rat(24, 10), Rat(55, 1000), Rat(3928, 100000), Rat(1292, 100), FALSE)

\* A hybrid with a square law, whose derived K0 = 1/2 and Phi = 9/8 are exact.
SquareHybrid == GammaConverterHybrid(RInt(2), Rat(1, 2), Rat(1, 2), ROne, TRUE)

\* The predefined converters: their Phi is a quotient of floating point powers.
PredefinedConverters ==
    {srgb_gamma_converter, uhdtv10_gamma_converter, uhdtv12_gamma_converter}

\* The converters of test_gamma.py, and the square-law hybrid.
TestedConverters ==
    {GammaConverterPower(g) : g \in gamma_set}
    \cup {GammaConverterSrgbReference,
          GammaConverterFunction("srgb_gamma_invert", "srgb_gamma_correct"),
          SrgbHybridUnimproved, SquareHybrid}
    \cup PredefinedConverters

\* The formula of a converter: the exponent, offset and scale of its power
\* branch, and the value at which each direction changes branch.
FormulaOf(c) ==
    CASE c.kind = "power"  ->
            [gamma |-> c.gamma, a |-> RZero, one_plus_a |-> ROne,
             linear_break |-> RZero, display_break |-> RZero]
      [] c.kind = "hybrid" ->
            [gamma |-> c.gamma, a |-> c.a, one_plus_a |-> c.one_plus_a,
             linear_break |-> c.K0_over_Phi, display_break |-> c.K0]
      [] OTHER             ->
            [gamma |-> Rat(24, 10), a |-> Rat(55, 1000), one_plus_a |-> Rat(1055, 1000),
             linear_break |-> Rat(304, 100000), display_break |-> Rat(3928, 100000)]

\* get_values (-10.0, +10.0, num): the range of the values.
InTestRange(x) == RLe(RInt(-10), x) /\ RLe(x, RInt(10))

\* The fractions r whose powers r^n and r^d are exact, n/d the exponent of c.
ExactBases(c) ==
    {r \in GammaBases : /\ PowerFits(r, FormulaOf(c).gamma[1])
                        /\ PowerFits(r, FormulaOf(c).gamma[2])}

\* Values below zero, and values part way from zero to a break.
OffPower(break) ==
    {RInt(-10), Rat(-1, 2)} \cup ({RMul(break, t) : t \in {Rat(1, 4), Rat(1, 2)}} \ {RZero})

\* The linear values a converter is tried on: nonzero, in [-10, 10].
LinearValues(c) ==
    LET f == FormulaOf(c)
    IN  {x \in {RPow(r, f.gamma[1]) : r \in ExactBases(c)} :
            InTestRange(x) /\ RLe(f.linear_break, x)}
        \cup OffPower(f.linear_break)
        \cup (IF c.kind = "hybrid" THEN {} ELSE {f.linear_break} \ {RZero})

\* The display values a converter is tried on: nonzero, in [-10, 10], and the
\* break itself where the model is exact there.
DisplayValues(c) ==
    LET f == FormulaOf(c)
    IN  {d \in {RSub(RMul(f.one_plus_a, RPow(r, f.gamma[2])), f.a) : r \in ExactBases(c)} :
            InTestRange(d) /\ RLe(f.display_break, d) /\ d # RZero}
        \cup OffPower(f.display_break)
        \cup (IF c \in PredefinedConverters THEN {} ELSE {f.display_break} \ {RZero})

\* get_values (-0.2, 1.2, num): a grid, and the values about the sRGB breaks.
CompareDen == 5

CompareValues ==
    {Rat(k, CompareDen) : k \in -1..(CompareDen + 1)}
    \cup {Rat(304, 100000), Rat(30401, 10000000), Rat(305, 100000),
          Rat(3927, 100000), Rat(3928, 100000), Rat(3929, 100000)}

-----------------------------------------------------------------------------
(* The calls on gamma converters.                                          *)

\* test_gamma.check_gamma_invert (converter, a): there and back from a linear value.
CheckGammaInvert ==
    /\ Idle
    /\ \E c \in TestedConverters :
          \E a \in LinearValues(c) :
             LET x == display_from_linear(c, a)
                 b == linear_from_display(c, x)
                 y == display_from_linear(c, b)
             IN  /\ op' = "check_gamma_invert"
                 /\ arg' = <<c, a>>
                 /\ ret' = [kind |-> "ok", value |-> <<x, b, y>>]
    /\ UNCHANGED <<config, python3, device, converter, calls, rgb, stage>>

\* test_gamma.check_gamma_correct (converter, x): there and back from a display value.
CheckGammaCorrect ==
    /\ Idle
    /\ \E c \in TestedConverters :
          \E x \in DisplayValues(c) :
             LET a == linear_from_display(c, x)
                 y == display_from_linear(c, a)
                 b == linear_from_display(c, y)
             IN  /\ op' = "check_gamma_correct"
                 /\ arg' = <<c, x>>
                 /\ ret' = [kind |-> "ok", value |-> <<a, y, b>>]
    /\ UNCHANGED <<config, python3, device, converter, calls, rgb, stage>>

\* test_gamma.check_converters_equal, first loop, on the sRGB reference and
\* the unimproved sRGB hybrid.
CompareLinearFromDisplay ==
    /\ Idle
    /\ \E x \in CompareValues :
          /\ op' = "compare_linear_from_display"
          /\ arg' = x
          /\ ret' = [kind  |-> "ok",
                     value |-> <<linear_from_display(GammaConverterSrgbReference, x),
                                 linear_from_display(SrgbHybridUnimproved, x)>>]
    /\ UNCHANGED <<config, python3, device, converter, calls, rgb, stage>>

\* test_gamma.check_converters_equal, second loop.
CompareDisplayFromLinear ==
    /\ Idle
    /\ \E y \in CompareValues :
          /\ op' = "compare_display_from_linear"
          /\ arg' = y
          /\ ret' = [kind  |-> "ok",
                     value |-> <<display_from_linear(GammaConverterSrgbReference, y),
                                 display_from_linear(SrgbHybridUnimproved, y)>>]
    /\ UNCHANGED <<config, python3, device, converter, calls, rgb, stage>>

\* The gamma converters on trial.
GammaNext ==
    \/ CheckGammaInvert
    \/ CheckGammaCorrect
    \/ CompareLinearFromDisplay
    \/ CompareDisplayFromLinear
    \/ Return

GammaSpec == Init /\ [][GammaNext]_vars

-----------------------------------------------------------------------------
(* A hybrid converter object and the methods that change it.  The objects  *)
(* have a square law, so that every math.pow of the methods is exact.      *)

MaxCalls == 2

\* The arguments of the constructor: gamma, a, K0, Phi.
HybridArgs ==
    {RInt(2)} \X {Rat(1, 2), ROne} \X {Rat(1, 2), ROne, RInt(3)} \X {ROne, RInt(2)}

\* converter = GammaConverterHybrid (gamma, a, K0, Phi, improve)
ConstructHybrid ==
    /\ Idle
    /\ \E h \in HybridArgs, improve \in BOOLEAN :
          converter' = GammaConverterHybrid(h[1], h[2], h[3], h[4], improve)
    /\ calls' = 0
    /\ UNCHANGED <<config, python3, device, op, arg, rgb, ret, stage>>

\* A method can be called on the object once it is there.
Callable == Idle /\ converter # NoValue /\ calls < MaxCalls

\* converter.set_continuous_slope ()
SetContinuousSlope ==
    /\ Callable
    /\ converter' = set_continuous_slope(converter)
    /\ calls' = calls + 1
    /\ UNCHANGED <<config, python3, device, op, arg, rgb, ret, stage>>

\* converter.set_continuous_only ()
SetContinuousOnly ==
    /\ Callable
    /\ converter' = set_continuous_only(converter)
    /\ calls' = calls + 1
    /\ UNCHANGED <<config, python3, device, op, arg, rgb, ret, stage>>

\* converter.improve_K0 ()
ImproveK0 ==
    /\ Callable
    /\ converter' = improve_K0(converter)
    /\ calls' = calls + 1
    /\ UNCHANGED <<config, python3, device, op, arg, rgb, ret, stage>>

\* converter.improve_Phi ()
ImprovePhi ==
    /\ Callable
    /\ converter' = improve_Phi(converter)
    /\ calls' = calls + 1
    /\ UNCHANGED <<config, python3, device, op, arg, rgb, ret, stage>>

\* The life of a hybrid converter object.
HybridNext ==
    \/ ConstructHybrid
    \/ SetContinuousSlope
    \/ SetContinuousOnly
    \/ ImproveK0
    \/ ImprovePhi

HybridSpec == Init /\ [][HybridNext]_vars

-----------------------------------------------------------------------------
(* The conversion of displayable colours to linear rgb and back.           *)

\* The colours converted: every level on one channel, the complementary level
\* on the second, a dark, a middle or a full third.
IrgbColors == {<<k, MaxValue8 - k, j>> : k \in 0..MaxValue8, j \in {0, 128, MaxValue8}}

\* test_colormodels.test_rgb_irgb, one colour: irgb0 to rgb0 to irgb1.
RgbIrgbRoundTrip ==
    /\ Idle
    /\ \E irgb0 \in IrgbColors :
          LET rgb0  == rgb_from_irgb(irgb0, linear_fn, gamma_exponent)
              irgb1 == irgb_from_rgb(rgb0, clip_method, display_fn, gamma_exponent, python3)
          IN  /\ op' = "rgb_irgb_round_trip"
              /\ arg' = irgb0
              /\ rgb' = rgb0
              /\ ret' = irgb1
    /\ UNCHANGED <<config, python3, device, converter, calls, stage>>

\* The configuration, and colours taken to rgb and back.
IrgbNext ==
    \/ InitClipping
    \/ InitGammaCorrection
    \/ RgbIrgbRoundTrip
    \/ Return

IrgbSpec == Init /\ [][IrgbNext]_vars

-----------------------------------------------------------------------------
(* The device and the colours converted on it.                             *)

\* What init may be given: the sRGB default, the SMPTE, NTSC and Judd
\* phosphors with the white points D65 and C, the sRGB phosphors with the
\* equal-energy white (1/3, 1/3), and a blue phosphor that emits nothing,
\* which makes phosphor_matrix singular.
PhosphorArgs ==
    {<<SRGB_Red, SRGB_Green, SRGB_Blue, SRGB_White>>,
     <<xyz_color(Rat(630, 1000), Rat(340, 1000)), xyz_color(Rat(310, 1000), Rat(595, 1000)),
       xyz_color(Rat(155, 1000), Rat(70, 1000)), SRGB_White>>,
     <<xyz_color(Rat(670, 1000), Rat(330, 1000)), xyz_color(Rat(210, 1000), Rat(710, 1000)),
       xyz_color(Rat(140, 1000), Rat(80, 1000)), SRGB_White>>,
     <<xyz_color(Rat(68, 100), Rat(32, 100)), xyz_color(Rat(28, 100), Rat(60, 100)),
       xyz_color(Rat(15, 100), Rat(7, 100)), xyz_color(Rat(3101, 10000), Rat(3162, 10000))>>,
     <<SRGB_Red, SRGB_Green, SRGB_Blue, xyz_color(Rat(1, 3), Rat(1, 3))>>,
     <<SRGB_Red, SRGB_Green, <<RZero, RZero, RZero>>, SRGB_White>>}

XyzMax == 10

\* The components of an xyz colour: 10.0 * random.random(), from 0 to 10.
XyzValues == {RZero, Rat(1, 2), ROne, RInt(XyzMax)}

XyzColors == XyzValues \X XyzValues \X XyzValues

InitCallWithoutDefaults(p, lapack) ==
    LET r == init(device, p[1], p[2], p[3], p[4], lapack)
    IN  /\ op' = "init"
        /\ arg' = p
        /\ ret' = [kind |-> r.kind]
        /\ device' = r.device
        /\ UNCHANGED <<config, python3, converter, calls, rgb, stage>>

\* colormodels.init (phosphor_red, phosphor_green, phosphor_blue, white_point)
\* with the arguments p, in the run lapack: once the matrices and the white
\* point are set, init_gamma_correction() and init_clipping() put the
\* configuration back to the default.
InitCall(p, lapack) ==
    LET r == init(device, p[1], p[2], p[3], p[4], lapack)
    IN  /\ op' = "init"
        /\ arg' = p
        /\ ret' = [kind |-> r.kind]
        /\ device' = r.device
        /\ IF r.kind = "ok"
           THEN /\ clip_method' = CLIP_ADD_WHITE
                /\ display_fn' = "srgb"
                /\ linear_fn' = "srgb"
                /\ gamma_exponent' = STANDARD_GAMMA
           ELSE UNCHANGED config
        /\ UNCHANGED <<python3, converter, calls, rgb, stage>>

\* init with the phosphors the conversions are tried on.
InitDevice ==
    /\ Idle
    /\ \E p \in PhosphorArgs, lapack \in LapackRuns : InitCall(p, lapack)

\* test_colormodels.test_xyz_rgb, test_A: xyz0 to rgb0 to xyz1 to rgb1.
XyzRgbRoundTrip ==
    /\ Idle
    /\ \E xyz0 \in XyzColors :
          LET rgb0 == rgb_from_xyz(device, xyz0)
              xyz1 == xyz_from_rgb(device, rgb0)
              rgb1 == rgb_from_xyz(device, xyz1)
          IN  /\ op' = "xyz_rgb_round_trip"
              /\ arg' = xyz0
              /\ ret' = [kind |-> "ok", value |-> <<rgb0, xyz1, rgb1>>]
    /\ UNCHANGED <<config, python3, device, converter, calls, rgb, stage>>

CubeMax == 3

\* The y of an xyz colour given to the Luv and Lab conversions: 0, three
\* values of the linear range, and cubes, on which math.pow (y, 1.0/3.0) is
\* exact.
PerceptY ==
    {RZero, Rat(1, 500), Rat(1, 200), Rat(1, 125)}
        \cup {y \in {RPow(Rat(n, m), 3) : n \in 1..CubeMax, m \in 1..(CubeMax + 1)} :
                 RGt(y, L_LUM_CUTOFF) /\ RLe(y, RInt(XyzMax))}

\* The colours taken to Luv and back on the device d: the colours of no
\* luminance, the greys of the white point (the one at the cutoff among
\* them), and, where the white point is the equal-energy white, the whole
\* grid.  (On D65 and C reference_u_prime has a five-digit denominator, and
\* the products of a colour off the grey axis leave 32 bits.)
LuvColors(d) ==
    {<<x, RZero, z>> : x \in XyzValues, z \in XyzValues}
        \cup {Scale3(d.reference_white, t) : t \in PerceptY \cup {L_LUM_CUTOFF}}
        \cup (IF d.reference_white = <<ROne, ROne, ROne>>
              THEN XyzValues \X PerceptY \X XyzValues
              ELSE {})

\* test_colormodels.test_xyz_luv, test_A: xyz0 to luv0 to xyz1 to luv1.
XyzLuvRoundTrip ==
    /\ Idle
    /\ \E xyz0 \in LuvColors(device) :
          LET luv0 == luv_from_xyz(device, xyz0)
              xyz1 == xyz_from_luv(device, luv0)
              luv1 == luv_from_xyz(device, xyz1)
          IN  /\ op' = "xyz_luv_round_trip"
              /\ arg' = xyz0
              /\ ret' = [kind |-> "ok", value |-> <<luv0, xyz1, luv1>>]
    /\ UNCHANGED <<config, python3, device, converter, calls, rgb, stage>>

\* The colours taken to Lab and back on the device d: each component a value
\* of PerceptY, or the cutoff, times that component of the white point, so
\* that Lab_f is given 0, a value of its linear range or a cube.
LabColors(d) ==
    {<<RMul(a, d.reference_white[1]), RMul(b, d.reference_white[2]),
       RMul(c, d.reference_white[3])>> :
        a \in PerceptY, b \in PerceptY \cup {L_LUM_CUTOFF}, c \in PerceptY}

\* test_colormodels.test_xyz_lab, test_A: xyz0 to lab0 to xyz1 to lab1.
XyzLabRoundTrip ==
    /\ Idle
    /\ \E xyz0 \in LabColors(device) :
          LET lab0 == lab_from_xyz(device, xyz0)
              xyz1 == xyz_from_lab(device, lab0)
              lab1 == lab_from_xyz(device, xyz1)
          IN  /\ op' = "xyz_lab_round_trip"
              /\ arg' = xyz0
              /\ ret' = [kind |-> "ok", value |-> <<lab0, xyz1, lab1>>]
    /\ UNCHANGED <<config, python3, device, converter, calls, rgb, stage>>

\* The colours given to brightest_rgb_from_xyz: the corners of the unit cube
\* of xyz, black among them, at several intensities, and their negatives,
\* whose largest rgb component is negative.
BrightestColors ==
    {Scale3(<<RInt(c[1]), RInt(c[2]), RInt(c[3])>>, s) :
        c \in {0, 1} \X {0, 1} \X {0, 1},
        s \in {RInt(-XyzMax), RInt(-1), Rat(1, 2), ROne, RInt(XyzMax)}}

\* max_component: the default 1.0, the brightnesses 0.5 and 0.0, and one
\* below zero.
Brightnesses == {ROne, Rat(1, 2), RZero, Rat(-1, 2)}

\* colormodels.brightest_rgb_from_xyz (xyz, max_component)
BrightestRgbFromXyz ==
    /\ Idle
    /\ \E xyz \in BrightestColors, max_component \in Brightnesses :
          /\ op' = "brightest_rgb_from_xyz"
          /\ arg' = <<xyz, max_component>>
          /\ ret' = [kind  |-> "ok",
                     value |-> brightest_rgb_from_xyz(device, xyz, max_component)]
    /\ UNCHANGED <<config, python3, device, converter, calls, rgb, stage>>

\* The device, and colours converted on it.
DeviceNext ==
    \/ InitDevice
    \/ XyzRgbRoundTrip
    \/ XyzLuvRoundTrip
    \/ XyzLabRoundTrip
    \/ BrightestRgbFromXyz
    \/ Return

DeviceSpec == Init /\ [][DeviceNext]_vars

-----------------------------------------------------------------------------
(* The configuration: init and the three init_ functions, called in any     *)
(* order.                                                                   *)

\* What init is given here: the sRGB phosphors with the equal-energy white,
\* and three settings of which it cannot make the two matrices: a blue
\* phosphor that emits nothing; the SMPTE red given for the green too; and
\* the sRGB phosphors with a white point half way between the red and the
\* green, for which the intensity of the blue is 0 and xyz_from_rgb_matrix
\* has no inverse.
ConfigPhosphorArgs ==
    {<<SRGB_Red, SRGB_Green, SRGB_Blue, xyz_color(Rat(1, 3), Rat(1, 3))>>,
     <<SRGB_Red, SRGB_Green, <<RZero, RZero, RZero>>, SRGB_White>>,
     <<xyz_color(Rat(630, 1000), Rat(340, 1000)), xyz_color(Rat(630, 1000), Rat(340, 1000)),
       xyz_color(Rat(155, 1000), Rat(70, 1000)), SRGB_White>>,
     <<SRGB_Red, SRGB_Green, SRGB_Blue, xyz_color(Rat(470, 1000), Rat(465, 1000))>>}

\* init, called again on a module that is configured.
InitAgain ==
    /\ Idle
    /\ \E p \in ConfigPhosphorArgs, lapack \in LapackRuns : InitCall(p, lapack)

\* The white points given to init_Luv_Lab_white_point: WhiteA and WhiteC.
WhitePointArgs ==
    {xyz_color(Rat(4476, 10000), Rat(4074, 10000)),
     xyz_color(Rat(3101, 10000), Rat(3162, 10000))}

\* colormodels.init_Luv_Lab_white_point (white_point)
InitLuvLabWhitePoint ==
    /\ Idle
    /\ \E white_point \in WhitePointArgs :
          device' = init_Luv_Lab_white_point(device, white_point)
    /\ UNCHANGED <<config, python3, converter, calls, op, arg, rgb, ret, stage>>

ConfigNext ==
    \/ InitAgain
    \/ InitClipping
    \/ InitGammaCorrection
    \/ InitLuvLabWhitePoint
    \/ Return

ConfigSpec == Init /\ [][ConfigNext]_vars

-----------------------------------------------------------------------------
(* colortypes.py, colormodels.py: the normalizations of an xyz colour.  The *)
(* two modules hold the same two functions.  Each changes the array it is   *)
(* given and returns that array: ret.object names the object returned,      *)
(* "argument" for the array that was passed.                                *)

\* The xyz arrays normalized: the grid of XyzColors and its negatives, so that
\* the components of some colours add to 0.0 though none is 0.0.
NormalizeValues == XyzValues \cup {RNeg(v) : v \in XyzValues}

NormalizeColors == NormalizeValues \X NormalizeValues \X NormalizeValues

\* xyz_normalize (xyz)
XyzNormalize ==
    /\ Idle
    /\ \E xyz \in NormalizeColors :
          /\ op' = "xyz_normalize"
          /\ arg' = xyz
          /\ rgb' = xyz_normalize(xyz)
          /\ ret' = [kind |-> "ok", object |-> "argument", value |-> xyz_normalize(xyz)]
    /\ UNCHANGED <<config, python3, device, converter, calls, stage>>

\* xyz_normalize_Y1 (xyz)
XyzNormalizeY1 ==
    /\ Idle
    /\ \E xyz \in NormalizeColors :
          /\ op' = "xyz_normalize_Y1"
          /\ arg' = xyz
          /\ rgb' = xyz_normalize_Y1(xyz)
          /\ ret' = [kind |-> "ok", object |-> "argument", value |-> xyz_normalize_Y1(xyz)]
    /\ UNCHANGED <<config, python3, device, converter, calls, stage>>

TypesNext ==
    \/ XyzNormalize
    \/ XyzNormalizeY1
    \/ Return

TypesSpec == Init /\ [][TypesNext]_vars

-----------------------------------------------------------------------------
(* colormodels.py: the Luv conversions called one by one, on colours that  *)
(* make a denominator 0 among others.  A quotient by 0 is carried by the   *)
(* arithmetic above as a pair whose second entry is 0.                     *)

\* The components of the xyz colours given to uv_primes: with negative ones
\* X + 15 Y + 3 Z is 0 on colours other than black.
UvValues == {RInt(-15), RInt(-1), RZero, ROne, RInt(3)}

UvColors == UvValues \X UvValues \X UvValues

\* colormodels.uv_primes (xyz)
UvPrimes ==
    /\ Idle
    /\ \E xyz \in UvColors :
          /\ op' = "uv_primes"
          /\ arg' = xyz
          /\ ret' = [kind |-> "ok", value |-> uv_primes(xyz)]
    /\ UNCHANGED <<config, python3, device, converter, calls, rgb, stage>>

UvPrimeValues == {RNeg(Rat(1, 4)), RZero, Rat(1, 5), Rat(1, 2)}

UvPrimesInverseArgs == UvPrimeValues \X UvPrimeValues \X {RZero, Rat(1, 2), ROne}

\* colormodels.uv_primes_inverse (u_prime, v_prime, y)
UvPrimesInverse ==
    /\ Idle
    /\ \E a \in UvPrimesInverseArgs :
          /\ op' = "uv_primes_inverse"
          /\ arg' = a
          /\ ret' = [kind |-> "ok", value |-> uv_primes_inverse(a[1], a[2], a[3])]
    /\ UNCHANGED <<config, python3, device, converter, calls, rgb, stage>>

\* The Luv colours given to xyz_from_luv: L is 0 or 100 with u and v of
\* either sign, or 8 (the cube branch of L_luminance_inverse, just above
\* L_LUM_C * L_LUM_CUTOFF) with u = v = 0.
LuvValues == {RInt(-50), RZero, RInt(50)}

LuvArgs ==
    ({RZero, RInt(100)} \X LuvValues \X LuvValues) \cup {<<RInt(8), RZero, RZero>>}

\* colormodels.xyz_from_luv (luv)
XyzFromLuv ==
    /\ Idle
    /\ \E luv \in LuvArgs :
          /\ op' = "xyz_from_luv"
          /\ arg' = luv
          /\ ret' = [kind |-> "ok", value |-> xyz_from_luv(device, luv)]
    /\ UNCHANGED <<config, python3, device, converter, calls, rgb, stage>>

LuvNext ==
    \/ InitLuvLabWhitePoint
    \/ UvPrimes
    \/ UvPrimesInverse
    \/ XyzFromLuv
    \/ XyzLuvRoundTrip
    \/ Return

LuvSpec == Init /\ [][LuvNext]_vars

-----------------------------------------------------------------------------
(* purecolors.py: get_perceptually_equal_spaced_colors.  The pure colours  *)
(* come from the table of ciexyz.py and are scaled by scale_rgb_max; what  *)
(* the search and the interpolation use of them is ds, the lengths of the  *)
(* segments of the closed curve in Luv, and ds is what a call is given     *)
(* here.  The function makes 1100 colours; NumColors stands for that.      *)

NumColors == 3

MaxSamples == 4

\* dsi = math.sqrt (numpy.dot (dri, dri)): not negative, and 0 where two
\* neighbours are the same colour.
SegmentLengths == {RZero, ROne, RInt(2)}

\* The first two colours, of 380 nm and of 380.4 nm, are taken to differ; the
\* red that ends the spectral colours and the purple that follows it are the
\* same colour, as are the last purple and the first violet.
Curves == {lengths \in [1..NumColors -> SegmentLengths] : lengths[1] # RZero}

\* scale_rgb_max (xyz_array, brightness): brightest_rgb_from_xyz multiplies
\* each rgb by brightness / max (rgb), or leaves an rgb whose max is 0: at
\* brightness 0 every colour becomes (0, 0, 0), every Luv colour (0, 0, 0)
\* and every segment has length 0.
scale_rgb_max(lengths, brightness) ==
    [k \in DOMAIN lengths |-> IF brightness = RZero THEN RZero ELSE lengths[k]]

\* The quotient 0.0 / 0.0 of two numpy floats.
NaN == <<0, 0>>

\* total += ds[i]; S[i] = total.  S[k] here is S[k - 1] of the source.
RECURSIVE Accumulate(_, _)
Accumulate(ds, k) == IF k = 0 THEN RZero ELSE RAdd(Accumulate(ds, k - 1), ds[k])

\* numpy.searchsorted (S, si): the index, counted from 0, of the first entry
\* of the sorted S that is not less than si; len (S) if there is none.
searchsorted(S, si) == Cardinality({k \in DOMAIN S : RLt(S[k], si)})

\* One pass of the loop over the samples, for i counted from 0: the locals
\* it computes, or the IndexError of S[j] for j = len (S).
Sample(ds, num_samples, i) ==
    LET num_colors == Len(ds)
        S       == [k \in 1..num_colors |-> Accumulate(ds, k)]
        S_total == S[num_colors]
        fi      == Rat(i, num_samples)
        si      == RMul(fi, S_total)
        j       == searchsorted(S, si)
        s0      == IF j > 0 THEN S[j] ELSE RZero
        s1      == S[j + 1]
        t       == IF RSub(s1, s0) = RZero
                   THEN NaN
                   ELSE RDiv(RSub(si, s0), RSub(s1, s0))
    IN  IF j >= num_colors
        THEN [kind |-> "IndexError", j |-> j]
        ELSE [kind |-> "ok", si |-> si, j |-> j, s0 |-> s0, s1 |-> s1, t |-> t,
              v0 |-> j, v1 |-> IF j + 1 >= num_colors THEN 0 ELSE j + 1]

\* purecolors.get_perceptually_equal_spaced_colors (brightness, num_samples).
\* The sample i is (1.0 - t) * xyzs[v0] + t * xyzs[v1]; the call returns, for
\* each sample, what it is made of.
GetPerceptuallyEqualSpacedColors ==
    /\ Idle
    /\ \E brightness \in Brightnesses, lengths \in Curves, num_samples \in 1..MaxSamples :
          LET ds      == scale_rgb_max(lengths, brightness)
              samples == [i \in 1..num_samples |-> Sample(ds, num_samples, i - 1)]
          IN  /\ op' = "get_perceptually_equal_spaced_colors"
              /\ arg' = <<brightness, num_samples>>
              /\ stage' = ds
              /\ ret' = [kind  |-> IF \E i \in 1..num_samples : samples[i].kind # "ok"
                                   THEN "IndexError" ELSE "ok",
                         value |-> samples]
    /\ UNCHANGED <<config, python3, device, converter, calls, rgb>>

PureNext ==
    \/ GetPerceptuallyEqualSpacedColors
    \/ Return

PureSpec == Init /\ [][PureNext]_vars

-----------------------------------------------------------------------------
(* colormodels.py: irgb_string_from_irgb, which clamps the array it is     *)
(* given where it stands and formats it.                                   *)

irgb_string_from_irgb_on_copy(irgb) ==
    LET clamped == [index \in 1..3 |-> IMin(MaxValue8, IMax(0, irgb[index]))]
    IN  [irgb   |-> irgb,
         string |-> <<"#">> \o FormatHex(clamped[1], 2) \o FormatHex(clamped[2], 2)
                        \o FormatHex(clamped[3], 2)]

\* def irgb_string_from_irgb (irgb): the array irgb as the loop leaves it, and
\* the string returned.
irgb_string_from_irgb(irgb) ==
    LET clamped == [index \in 1..3 |-> IMin(MaxValue8, IMax(0, irgb[index]))]
    IN  [irgb   |-> clamped,
         string |-> <<"#">> \o FormatHex(clamped[1], 2) \o FormatHex(clamped[2], 2)
                        \o FormatHex(clamped[3], 2)]

\* colormodels.irgb_string_from_irgb (irgb); rgb is the caller's array after
\* the call.
IrgbStringFromIrgb ==
    /\ Idle
    /\ \E irgb \in IrgbInputs :
          LET r == irgb_string_from_irgb(irgb)
          IN  /\ op' = "irgb_string_from_irgb"
              /\ arg' = irgb
              /\ rgb' = r.irgb
              /\ ret' = [kind |-> "ok", value |-> r.string]
    /\ UNCHANGED <<config, python3, device, converter, calls, stage>>

IrgbStringNext ==
    \/ IrgbStringFromIrgb
    \/ Return

IrgbStringSpec == Init /\ [][IrgbStringNext]_vars

-----------------------------------------------------------------------------
(* Properties of the gamut clipper.                                         *)
(* A state with op # "idle" shows one call: its argument in arg, the array  *)
(* the caller passed in rgb, the result in ret, and for clip_rgb_color the  *)
(* local rgb after each step in stage.                                      *)

ValidClipMethods == {CLIP_CLAMP_TO_ZERO, CLIP_ADD_WHITE}

HasNegative(v) == \E i \in 1..3 : RLt(v[i], RZero)

InUnitRange(v) == \A i \in 1..3 : RLe(RZero, v[i]) /\ RLe(v[i], ROne)

\* The chromaticity clip of the call shown, by clipping.clip_color or as the
\* first step of colormodels.clip_rgb_color: was it made with this method,
\* what it was given, what it left, and the flag it reported.
ChromaClippedBy(method) ==
    \/ op = "clip_color" /\ arg[2] = method
    \/ op = "clip_rgb_color" /\ clip_method = method

ChromaIn == IF op = "clip_color" THEN arg[1] ELSE arg

ChromaOut == IF op = "clip_color" THEN rgb ELSE stage.chroma

ChromaFlag == IF op = "clip_color" THEN ret.value ELSE ret.value[2][1]

\* The intensity clip of the call shown, by clipping.clip_intensity or as the
\* second step of colormodels.clip_rgb_color.
IntensityClipDone ==
    \/ op = "clip_intensity"
    \/ op = "clip_rgb_color" /\ ret.kind = "ok"

IntensityIn == IF op = "clip_intensity" THEN arg[1] ELSE stage.chroma

IntensityOut == IF op = "clip_intensity" THEN rgb ELSE stage.intensity

IntensityFlag == IF op = "clip_intensity" THEN ret.value ELSE ret.value[2][2]

IntensityMaxValue == IF op = "clip_intensity" THEN arg[2] ELSE 2^8 - 1

\* 1 + 0.5/max_value as one fraction.
HalfStepAboveOne(max_value) == Rat(2 * max_value + 1, 2 * max_value)

\* x is n/10000 when rounded to four decimal places.
RoundsTo4(x, n) == RLe(RSub(Rat(2 * n - 1, 20000), x), RZero) /\ RLe(x, Rat(2 * n + 1, 20000))

C2_AddWhite ==
    ChromaClippedBy(CLIP_ADD_WHITE) =>
        IF HasNegative(ChromaIn)
        THEN /\ Min3(ChromaOut) = RZero
             /\ ChromaFlag = TRUE
             /\ IF RGt(Max3(ChromaIn), RZero)
                THEN Max3(ChromaOut) = Max3(ChromaIn)
                ELSE \A i \in 1..3 : ChromaOut[i] = RSub(ChromaIn[i], Min3(ChromaIn))
        ELSE /\ ChromaOut = ChromaIn
             /\ ChromaFlag = FALSE

\* White has been added to a colour with a negative and a positive component.
C2_Witness ==
    /\ op = "clip_color"
    /\ arg[2] = CLIP_ADD_WHITE
    /\ HasNegative(arg[1])
    /\ RGt(Max3(arg[1]), RZero)
    /\ rgb # arg[1]
    /\ Max3(rgb) = Max3(arg[1])
    /\ ret.value = TRUE

\* C2 as stated: adding white to any triple with a negative component leaves
\* the smallest component at 0 and the largest equal to the largest of the
\* input, flag true; without a negative component, unchanged and flag false.
C2_AsStated ==
    ChromaClippedBy(CLIP_ADD_WHITE) =>
        IF HasNegative(ChromaIn)
        THEN /\ Min3(ChromaOut) = RZero
             /\ Max3(ChromaOut) = Max3(ChromaIn)
             /\ ChromaFlag = TRUE
        ELSE /\ ChromaOut = ChromaIn
             /\ ChromaFlag = FALSE

\* C3: clamping to zero sets each negative component to 0 and leaves each
\* non-negative component as it was; the flag is true exactly when some
\* component was negative.
C3_ClampToZero ==
    ChromaClippedBy(CLIP_CLAMP_TO_ZERO) =>
        /\ \A i \in 1..3 :
              ChromaOut[i] = IF RLt(ChromaIn[i], RZero) THEN RZero ELSE ChromaIn[i]
        /\ ChromaFlag = HasNegative(ChromaIn)

\* A colour with a negative and a positive component has been clamped.
C3_Witness ==
    /\ op = "clip_rgb_color"
    /\ clip_method = CLIP_CLAMP_TO_ZERO
    /\ HasNegative(arg)
    /\ RGt(Max3(arg), RZero)
    /\ stage.chroma # arg
    /\ ret.value[2][1] = TRUE

\* C4: the intensity clip rescales exactly when the largest component exceeds
\* 1 + 0.5/max_value.  When it rescales, every component is multiplied by
\* (1 + 0.5/max_value) / max, so that the new largest component is
\* 1 + 0.5/max_value and the ratios between the components are unchanged;
\* the flag is true exactly when it rescaled, and otherwise the triple is
\* unchanged.
C4_IntensityClip ==
    IntensityClipDone =>
        LET cutoff  == HalfStepAboveOne(IntensityMaxValue)
            rgb_max == Max3(IntensityIn)
        IN  /\ IntensityFlag = RGt(rgb_max, cutoff)
            /\ IF RGt(rgb_max, cutoff)
               THEN /\ IntensityOut = Scale3(IntensityIn, RDiv(cutoff, rgb_max))
                    /\ Max3(IntensityOut) = cutoff
                    /\ \A i, j \in 1..3 :
                          RMul(IntensityOut[i], IntensityIn[j])
                              = RMul(IntensityOut[j], IntensityIn[i])
               ELSE IntensityOut = IntensityIn

\* clip_intensity has rescaled a colour for 4 bits.
C4_Witness ==
    /\ op = "clip_intensity"
    /\ arg[2] = 15
    /\ RGt(Max3(arg[1]), Rat(31, 30))
    /\ rgb # arg[1]
    /\ Max3(rgb) = Rat(31, 30)
    /\ ret.value = TRUE

\* C5 (as amended): for (1.2, 0.5, -0.3) with adding white and 8 bits, the
\* chromaticity clip leaves (1.2, 0.64, 0.0); the intensity clip then scales
\* by (1 + 0.5/255) / 1.2 = 511/612, about 0.8350, leaving about
\* (1.0020, 0.5344, 0.0); both flags are true.
C5_Example ==
    (op = "clip_rgb_color" /\ arg = ExampleRgb /\ clip_method = CLIP_ADD_WHITE) =>
        /\ ret.kind = "ok"
        /\ stage.chroma = <<Rat(12, 10), Rat(64, 100), RZero>>
        /\ stage.intensity = Scale3(stage.chroma, Rat(511, 612))
        /\ RoundsTo4(RDiv(stage.intensity[1], stage.chroma[1]), 8350)
        /\ RoundsTo4(stage.intensity[1], 10020)
        /\ RoundsTo4(stage.intensity[2], 5344)
        /\ stage.intensity[3] = RZero
        /\ ret.value[2] = <<TRUE, TRUE>>

\* clip_rgb_color has returned for the colour of the example.
C5_Witness ==
    /\ op = "clip_rgb_color"
    /\ arg = ExampleRgb
    /\ clip_method = CLIP_ADD_WHITE
    /\ ret.kind = "ok"
    /\ stage.intensity # stage.chroma

\* C5 as stated: the intensity clip scales by about 0.8368 and leaves about
\* (1.0042, 0.5356, 0.0).
C5_AsStated ==
    (op = "clip_rgb_color" /\ arg = ExampleRgb /\ clip_method = CLIP_ADD_WHITE) =>
        /\ ret.kind = "ok"
        /\ stage.chroma = <<Rat(12, 10), Rat(64, 100), RZero>>
        /\ RoundsTo4(RDiv(stage.intensity[1], stage.chroma[1]), 8368)
        /\ RoundsTo4(stage.intensity[1], 10042)
        /\ RoundsTo4(stage.intensity[2], 5356)
        /\ stage.intensity[3] = RZero
        /\ ret.value[2] = <<TRUE, TRUE>>

\* C6: for a triple with every component in [0, 1], with either valid clip
\* method, clip_rgb_color reports (false, false) and its irgb is the gamma
\* correction and quantization of the unmodified input; clip_color leaves such
\* a triple as it was and reports no clip.
C6_InGamutUntouched ==
    /\ (op = "clip_rgb_color" /\ clip_method \in ValidClipMethods /\ InUnitRange(arg))
          => /\ ret.kind = "ok"
             /\ ret.value[2] = <<FALSE, FALSE>>
             /\ stage.chroma = arg
             /\ stage.intensity = arg
             /\ ret.value[1]
                   = Quantize(GammaCorrect(arg, display_fn, gamma_exponent), python3)
    /\ (op = "clip_color" /\ arg[2] \in ValidClipMethods /\ InUnitRange(arg[1]))
          => /\ rgb = arg[1]
             /\ ret.value = FALSE

\* clip_rgb_color has returned for an in-gamut colour that is neither black
\* nor white.
C6_Witness ==
    /\ op = "clip_rgb_color"
    /\ clip_method = CLIP_ADD_WHITE
    /\ InUnitRange(arg)
    /\ arg[1] = Rat(1, 2)
    /\ ret.kind = "ok"
    /\ ret.value[2] = <<FALSE, FALSE>>
    /\ ret.value[1][1] \in 1..254

-----------------------------------------------------------------------------
(* Properties of the integer colour codec.                                  *)

ClampInt(x, lo, hi) == IF x < lo THEN lo ELSE IF x > hi THEN hi ELSE x

UpperHexDigits == {"0", "1", "2", "3", "4", "5", "6", "7",
                   "8", "9", "A", "B", "C", "D", "E", "F"}

HexDigits == UpperHexDigits \cup {"a", "b", "c", "d", "e", "f"}

\* The number a sequence of uppercase hexadecimal digits writes.
RECURSIVE UpperHexValue(_)
UpperHexValue(digits) ==
    IF digits = <<>> THEN 0
    ELSE 16 * UpperHexValue(SubSeq(digits, 1, Len(digits) - 1))
            + (CHOOSE k \in 0..15 : HexChars[k + 1] = digits[Len(digits)])

\* The text is not of the form '#' followed by a multiple of three characters.
BadShape(text) == text = <<>> \/ text[1] # "#" \/ Len(text) % 3 # 1

\* The text has the form, but some character after the '#' is no hex digit.
BadDigit(text) ==
    /\ ~BadShape(text)
    /\ \E i \in 2..Len(text) : text[i] \notin HexDigits

\* C7: for every num_digits >= 1 and every integer triple, decoding the
\* string hexstring_from_irgb made of it gives the triple with each channel
\* clamped to 0..16^num_digits - 1.
C7_RoundTrip ==
    op = "hexstring_from_irgb" =>
        irgb_from_hexstring(ret.value, python3)
            = [kind  |-> "ok",
               value |-> <<ClampInt(arg[1][1], 0, 16^arg[2] - 1),
                           ClampInt(arg[1][2], 0, 16^arg[2] - 1),
                           ClampInt(arg[1][3], 0, 16^arg[2] - 1)>>]

\* A triple with a channel below 0, one above the largest value and one that
\* needs leading zeros has been encoded with three digits.
C7_Witness ==
    /\ op = "hexstring_from_irgb"
    /\ arg = <<<<4096, -1, 18>>, 3>>
    /\ irgb_from_hexstring(ret.value, python3).value = <<4095, 0, 18>>

\* C8: hexstring_from_irgb returns a string of length 1 + 3 * num_digits: a
\* '#', then each channel, clamped to 0..16^num_digits - 1, written as
\* exactly num_digits uppercase hexadecimal digits with leading zeros.
\* (255, 0, 128) with 2 digits gives '#FF0080', (256, 255, -1) with 2 digits
\* '#FFFF00', and (255, 255, 255) with 3 digits '#0FF0FF0FF'.
C8_Encoding ==
    op = "hexstring_from_irgb" =>
        LET text       == ret.value
            num_digits == arg[2]
        IN  /\ ret.kind = "ok"
            /\ Len(text) = 1 + 3 * num_digits
            /\ text[1] = "#"
            /\ \A i \in 1..3 :
                  LET digits == SubSeq(text, 2 + (i - 1) * num_digits, 1 + i * num_digits)
                  IN  /\ \A k \in 1..num_digits : digits[k] \in UpperHexDigits
                      /\ UpperHexValue(digits)
                            = ClampInt(arg[1][i], 0, 16^num_digits - 1)
            /\ arg = <<<<255, 0, 128>>, 2>>
                  => text = <<"#", "F", "F", "0", "0", "8", "0">>
            /\ arg = <<<<256, 255, -1>>, 2>>
                  => text = <<"#", "F", "F", "F", "F", "0", "0">>
            /\ arg = <<<<255, 255, 255>>, 3>>
                  => text = <<"#", "0", "F", "F", "0", "F", "F", "0", "F", "F">>

\* (256, 255, -1) has been encoded with two digits.
C8_Witness ==
    /\ op = "hexstring_from_irgb"
    /\ arg = <<<<256, 255, -1>>, 2>>
    /\ ret.value = <<"#", "F", "F", "F", "F", "0", "0">>

\* C9 as stated: for every string, the empty one included, whose first
\* character is not '#' or whose length is not 1 modulo 3,
\* irgb_from_hexstring fails with ValueError.
C9_AsStated ==
    (op = "irgb_from_hexstring" /\ BadShape(arg)) => ret.kind = "ValueError"

\* C10 as stated: for a string that starts with '#', has a length of 1 modulo
\* 3 and holds a character after the '#' that is no hexadecimal digit, the
\* decoder fails with a format error and returns no colour, and the
\* configuration is as it was (the one of the load: the codec has no call that
\* sets it).
C10_AsStated ==
    (op \in {"irgb_from_hexstring", "irgb_from_irgb_string"} /\ BadDigit(arg))
        => /\ ret.kind = "ValueError"
           /\ config = <<CLIP_ADD_WHITE, "srgb", "srgb", STANDARD_GAMMA>>

-----------------------------------------------------------------------------
(* Properties of the gamma converters.                                     *)

\* tolerance = 1.0e-14, as its number of decimal places.
ToleranceDigits == 14

RAbs(a) == <<Abs(a[1]), a[2]>>

\* floor (d / 10^k)
RECURSIVE DivPow10(_, _)
DivPow10(d, k) == IF k = 0 THEN d ELSE DivPow10(d \div 10, k - 1)

\* r <= 10^-k for a rational r >= 0.
AtMostPow10(r, k) == r[1] <= DivPow10(r[2], k)

\* rel_err = math.fabs (abs_err / (b + a)), abs_err = math.fabs (b - a)
RelErr(a, b) == RAbs(RDiv(RAbs(RSub(b, a)), RAdd(b, a)))

\* assertLessEqual (rel_err, tolerance), for a nonzero a.
WithinRelTolerance(a, b) == a = b \/ AtMostPow10(RelErr(a, b), ToleranceDigits)

C12_AsStated ==
    op = "check_gamma_correct" => WithinRelTolerance(arg[2], ret.value[2])

\* C13: the unimproved sRGB hybrid (gamma 2.4, a 0.055, K0 0.03928, Phi 12.92)
\* and the sRGB reference converter return equal results, with tolerance 0.0,
\* from linear_from_display and from display_from_linear for every input in
\* [-0.2, 1.2].
C13_AsStated ==
    op \in {"compare_linear_from_display", "compare_display_from_linear"}
        => ret.value[1] = ret.value[2]

\* |a - b| <= 10^-k
WithinPow10(a, b, k) == AtMostPow10(RAbs(RSub(a, b)), k)

\* C14: after construction, with improve true or false, and after any sequence
\* of set_continuous_slope, set_continuous_only, improve_K0 and improve_Phi,
\* the precomputed fields of a hybrid converter agree with its parameters
\* within 1e-14: one_plus_a = 1 + a, inv_gamma = 1 / gamma, K0_over_Phi = K0 / Phi.
C14_AsStated ==
    converter # NoValue =>
        /\ WithinPow10(converter.one_plus_a, RAdd(ROne, converter.a), ToleranceDigits)
        /\ WithinPow10(converter.inv_gamma, RDiv(ROne, converter.gamma), ToleranceDigits)
        /\ WithinPow10(converter.K0_over_Phi, RDiv(converter.K0, converter.Phi),
                       ToleranceDigits)

-----------------------------------------------------------------------------
(* Properties of the conversions between colour models.                    *)

\* C15: for every integer colour irgb in [0, 255]^3, under whichever gamma
\* method is configured (the sRGB functions or the simple power law, the
\* clipping method being one of the two there are), irgb_from_rgb
\* (rgb_from_irgb (irgb)) is irgb exactly.
C15_IrgbRoundTrip ==
    (op = "rgb_irgb_round_trip" /\ clip_method \in ValidClipMethods)
        => (ret.kind = "ok" /\ ret.value = arg)

\* C15 witness: under the simple power law, level 10 has gone to linear
\* intensity (10/255)^2.2, which is not 10/255, and come back as 10.
C15_Witness ==
    /\ op = "rgb_irgb_round_trip"
    /\ display_fn = "simple" /\ linear_fn = "simple"
    /\ arg = <<10, 245, 128>>
    /\ RLt(rgb[1], Rat(1, 255))
    /\ ret = [kind |-> "ok", value |-> arg]

\* tolerance = 1.0e-10 of the round trips, as its number of decimal places.
RoundTripDigits == 10

\* Thirteen primes below 2^15: their product exceeds 2^194.
CheckPrimes ==
    {32749, 32719, 32717, 32713, 32707, 32693, 32687, 32653, 32647, 32633, 32621,
     32611, 32609}

MulMod(x, y, p) == ((x % p) * (y % p)) % p

\* Entry (i, j) of the product a . b is e (0 or 1).  With N[k] and D[k] the
\* numerator and the denominator of a[i][k] * b[k][j], that is
\*     N[1] D[2] D[3] + D[1] N[2] D[3] + D[1] D[2] N[3] = e D[1] D[2] D[3],
\* an equation between integers below 2^189: it holds when it holds modulo
\* every prime of CheckPrimes, and no integer of the model leaves 32 bits.
EntryIs(a, b, i, j, e) ==
    \A p \in CheckPrimes :
        LET N(k) == MulMod(a[i][k][1], b[k][j][1], p)
            D(k) == MulMod(a[i][k][2], b[k][j][2], p)
            T(x, y, z) == MulMod(MulMod(x, y, p), z, p)
        IN  (T(N(1), D(2), D(3)) + T(D(1), N(2), D(3)) + T(D(1), D(2), N(3))) % p
                = (e * T(D(1), D(2), D(3))) % p

\* numpy.dot (a, b) is numpy.eye (3), exactly.
ProductIsIdentity(a, b) ==
    \A i \in 1..3, j \in 1..3 : EntryIs(a, b, i, j, IF i = j THEN 1 ELSE 0)

\* The phosphors and the white point that init was last given are ones it
\* accepts.
ValidPhosphors ==
    init(device, device.PhosphorRed, device.PhosphorGreen, device.PhosphorBlue,
         device.PhosphorWhite, Detecting).kind = "ok"

\* math.sqrt (numpy.dot (a - b, a - b)) <= 10^-k.  A rational of the model
\* that is not 0 is above 2^-31, so the length of a - b is within 10^-10
\* exactly when each of its components is.
WithinPow10In3(a, b, k) == \A i \in 1..3 : a[i] = b[i] \/ WithinPow10(a[i], b[i], k)

C18_LabRoundTrip ==
    op = "xyz_lab_round_trip" =>
        /\ WithinPow10In3(ret.value[2], arg, RoundTripDigits)
        /\ WithinPow10In3(ret.value[3], ret.value[1], RoundTripDigits)

\* C18 witness: on sRGB's D65, the colour (1/8, 1, 0.008) times the white
\* point has gone to L = 100, a = 500 (1/2 - 1) and b = 200 (1 - (LAB_F_A *
\* 0.008 + LAB_F_B)), and come back.
C18_Witness ==
    /\ op = "xyz_lab_round_trip"
    /\ device.PhosphorWhite = SRGB_White
    /\ arg = <<RMul(Rat(1, 8), device.reference_white[1]), ROne,
               RMul(Rat(1, 125), device.reference_white[3])>>
    /\ ret.value[1] = <<RInt(100), RInt(-250),
                        RMul(RInt(200), RSub(ROne, RAdd(RMul(LAB_F_A, Rat(1, 125)),
                                                        LAB_F_B)))>>
    /\ ret.value[2] = arg
    /\ ret.value[3] = ret.value[1]

\* What rgb_from_xyz makes of the xyz given to brightest_rgb_from_xyz.
Converted == rgb_from_xyz(device, arg[1])

-----------------------------------------------------------------------------
(* Properties of the normalizations, of the configuration and of the       *)
(* arrays a call is given.                                                  *)

Sum3(v) == RAdd(RAdd(v[1], v[2]), v[3])

\* A factor f with after = f * before, component by component.
CommonFactor(before, after) ==
    \E i \in 1..3 :
        /\ before[i] # RZero
        /\ after = Scale3(before, RDiv(after[i], before[i]))

\* C21: xyz_normalize leaves in the array it was given, and returns as that
\* very array, the components it held multiplied by one common factor, adding
\* to 1; xyz_normalize_Y1 does the same with the factor that makes Y equal 1;
\* an array whose sum (for xyz_normalize_Y1: whose Y) is 0 is left as it was.
C21_Normalize ==
    op \in {"xyz_normalize", "xyz_normalize_Y1"} =>
        LET measure(v) == IF op = "xyz_normalize" THEN Sum3(v) ELSE v[2]
        IN  /\ ret.kind = "ok"
            /\ ret.object = "argument"
            /\ ret.value = rgb
            /\ IF measure(arg) = RZero
               THEN rgb = arg
               ELSE /\ measure(rgb) = ROne
                    /\ CommonFactor(arg, rgb)

\* xyz_normalize has rescaled a colour with a negative component.
C21_Witness ==
    /\ op = "xyz_normalize"
    /\ arg = <<ROne, ROne, Rat(-1, 2)>>
    /\ rgb = <<Rat(2, 3), Rat(2, 3), Rat(-1, 3)>>

\* C22: a clip method that is neither CLIP_CLAMP_TO_ZERO nor CLIP_ADD_WHITE is
\* refused by the init_clipping call that supplies it, so that the stored
\* clip method is at all times one of the two.
C22_AsStated == clip_method \in ValidClipMethods

\* C23: init called with primaries whose matrix has no inverse raises an
\* error, and installs neither conversion matrix: they stay those of the
\* device before the call.
C23_AsStated ==
    [][(op' = "init" /\ Det3(column_stack(arg'[1], arg'[2], arg'[3])) = RZero) =>
          /\ ret'.kind = "LinAlgError"
          /\ device'.xyz_from_rgb_matrix = device.xyz_from_rgb_matrix
          /\ device'.rgb_from_xyz_matrix = device.rgb_from_xyz_matrix]_vars


\* The configuration and the Luv/Lab white point are what init leaves when it
\* runs to its end with the white point w: the sRGB gamma functions with the
\* standard exponent, CLIP_ADD_WHITE, and w scaled to Y = 1.
DefaultsFor(w) ==
    /\ clip_method = CLIP_ADD_WHITE
    /\ display_fn = "srgb"
    /\ linear_fn = "srgb"
    /\ gamma_exponent = STANDARD_GAMMA
    /\ device.reference_white = xyz_normalize_Y1(w)
    /\ device.reference_u_prime = uv_primes(xyz_normalize_Y1(w))[1]
    /\ device.reference_v_prime = uv_primes(xyz_normalize_Y1(w))[2]

\* C24 as stated: after every call of init, whatever its arguments and whether
\* or not it raised, the gamma functions, the clip method and the Luv/Lab
\* white are the defaults for the white point it was given.
C24_AsStated == op = "init" => DefaultsFor(arg[4])

\* C24: after every call of init that returns, whatever init_gamma_correction,
\* init_clipping and init_Luv_Lab_white_point had set before, the gamma
\* functions are the sRGB pair with the standard exponent, the clip method is
\* CLIP_ADD_WHITE and the Luv/Lab white is the given white point with Y = 1.
C24_InitResets == (op = "init" /\ ret.kind = "ok") => DefaultsFor(arg[4])

\* init has returned for the equal-energy white, which is now the Luv/Lab
\* white, and the configuration is the default.
C24_Witness ==
    /\ op = "init"
    /\ ret.kind = "ok"
    /\ arg[4] = xyz_color(Rat(1, 3), Rat(1, 3))
    /\ device.reference_white = <<ROne, ROne, ROne>>
    /\ DefaultsFor(arg[4])


\* C25: clip_rgb_color clips the chromaticity of the colour it is given; tests
\* the largest component of the result of that, not of the colour given,
\* against 1 + 0.5/255 and scales that result when it is above; applies the
\* gamma function once to each component the intensity clip left; and rounds
\* and clamps 255 times each component the gamma function returned.
C25_StepOrder ==
    (op = "clip_rgb_color" /\ ret.kind = "ok") =>
        LET cutoff  == HalfStepAboveOne(MaxValue8)
            rgb_max == Max3(stage.chroma)
        IN  /\ stage.chroma = ChromaticityClip(arg, clip_method).rgb
            /\ ret.value[2][1] = ChromaticityClip(arg, clip_method).clipped
            /\ ret.value[2][2] = RGt(rgb_max, cutoff)
            /\ stage.intensity = IF RGt(rgb_max, cutoff)
                                 THEN Scale3(stage.chroma, RDiv(cutoff, rgb_max))
                                 ELSE stage.chroma
            /\ \A i \in 1..3 :
                  /\ stage.gamma[i] =
                        display_from_linear_component(display_fn, gamma_exponent,
                                                      stage.intensity[i])
                  /\ ret.value[1][i] =
                        ClampInt(Round(RMul(RInt(MaxValue8), stage.gamma[i]), python3),
                                 0, MaxValue8)

\* The colour (-1.5, 0, 0), whose largest component is 0: adding white makes it
\* (0, 1.5, 1.5), and the intensity clip, which tests that, has fired.
C25_Witness ==
    /\ op = "clip_rgb_color"
    /\ clip_method = CLIP_ADD_WHITE
    /\ arg = <<Rat(-3, 2), RZero, RZero>>
    /\ stage.chroma = <<RZero, Rat(3, 2), Rat(3, 2)>>
    /\ ret.value[2] = <<TRUE, TRUE>>
    /\ ret.value[1] = <<0, MaxValue8, MaxValue8>>


\* A number, as opposed to what a division by 0 leaves.
IsNumber(a) == a[2] # 0

Black == <<RZero, RZero, RZero>>

\* C26: no Luv conversion divides by 0 or raises: every returned component is
\* a number; uv_primes returns (0, 0) where X + 15 Y + 3 Z is 0,
\* uv_primes_inverse returns (0, 0, 0) where v' is 0, xyz_from_luv returns
\* (0, 0, 0) where L is 0, whatever u and v; black goes to the Luv (0, 0, 0)
\* and back to (0, 0, 0), and to (0, 0, 0) again.
C26_LuvDegenerate ==
    /\ op = "uv_primes" =>
          /\ ret.kind = "ok"
          /\ \A i \in 1..2 : IsNumber(ret.value[i])
          /\ RAdd(RAdd(arg[1], RMul(RInt(15), arg[2])), RMul(RInt(3), arg[3])) = RZero
                => ret.value = <<RZero, RZero>>
    /\ op = "uv_primes_inverse" =>
          /\ ret.kind = "ok"
          /\ \A i \in 1..3 : IsNumber(ret.value[i])
          /\ arg[2] = RZero => ret.value = Black
    /\ op = "xyz_from_luv" =>
          /\ ret.kind = "ok"
          /\ \A i \in 1..3 : IsNumber(ret.value[i])
          /\ arg[1] = RZero => ret.value = Black
    /\ op = "xyz_luv_round_trip" =>
          /\ ret.kind = "ok"
          /\ \A k \in 1..3 : \A i \in 1..3 : IsNumber(ret.value[k][i])
          /\ arg = Black => ret.value = <<Black, Black, Black>>

\* C26 witness: uv_primes has returned (0, 0) for (3, 0, -1), which is not
\* black and has X + 15 Y + 3 Z = 0.
C26_Witness ==
    /\ op = "uv_primes"
    /\ arg = <<RInt(3), RZero, RInt(-1)>>
    /\ ret.value = <<RZero, RZero>>


\* C27 as stated: in every call of get_perceptually_equal_spaced_colors, for
\* every sample, 0 <= j < N, the denominator s1 - s0 of t is not 0,
\* 0 <= t <= 1, v0 is j and v1 is j + 1 or, after the last vertex, 0.
C27_AsStated ==
    op = "get_perceptually_equal_spaced_colors" =>
        \A i \in DOMAIN ret.value :
            LET s == ret.value[i]
            IN  /\ s.kind = "ok"
                /\ s.j \in 0..(NumColors - 1)
                /\ s.s1 # s.s0
                /\ IsNumber(s.t) /\ RLe(RZero, s.t) /\ RLe(s.t, ROne)
                /\ s.v0 = s.j /\ s.v1 = (s.j + 1) % NumColors


\* C28 as stated: a call of init that raises leaves the configuration as it
\* was before the call: the phosphors, both matrices and the reference white
\* of the device, the gamma functions and the clip method.
C28_AsStated ==
    [][(op' = "init" /\ ret'.kind = "LinAlgError")
          => (device' = device /\ UNCHANGED config)]_vars


\* C29: after clip_rgb_color the array passed to it holds the values it held
\* before the call, whatever the colour and the clip method, the invalid
\* ones included, for which the call raises.
C29_ArgumentKept ==
    op = "clip_rgb_color" => rgb = arg

\* C29 witness: with CLIP_CLAMP_TO_ZERO in force, (-1, 1/2, 3/2) has gone
\* through both clips and the gamma correction, every step changing the
\* local copy, and the array passed is still (-1, 1/2, 3/2).
C29_Witness ==
    /\ op = "clip_rgb_color"
    /\ clip_method = CLIP_CLAMP_TO_ZERO
    /\ arg = <<RInt(-1), Rat(1, 2), Rat(3, 2)>>
    /\ ret.kind = "ok" /\ ret.value[2] = <<TRUE, TRUE>>
    /\ stage.chroma = <<RZero, Rat(1, 2), Rat(3, 2)>>
    /\ stage.intensity = <<RZero, Rat(511, 1530), Rat(511, 510)>>
    /\ stage.gamma # stage.intensity
    /\ ret.value[1] = <<0, 156, 255>>
    /\ rgb = <<RInt(-1), Rat(1, 2), Rat(3, 2)>>


\* C30: after irgb_string_from_irgb each component of the array passed is
\* its value before the call clamped to 0..255, so that the array is changed
\* exactly when a component was out of that range, and the string returned is
\* '#' and the two uppercase hexadecimal digits of each clamped component.
C30_ClampsInPlace ==
    op = "irgb_string_from_irgb" =>
        /\ \A i \in 1..3 : rgb[i] = ClampInt(arg[i], 0, MaxValue8)
        /\ (rgb # arg) <=> (\E i \in 1..3 : arg[i] \notin 0..MaxValue8)
        /\ ret.kind = "ok"
        /\ Len(ret.value) = 7 /\ ret.value[1] = "#"
        /\ \A i \in 1..3 :
              /\ ret.value[2 * i] = HexChars[(rgb[i] \div 16) + 1]
              /\ ret.value[2 * i + 1] = HexChars[(rgb[i] % 16) + 1]

\* C30 witness: the array (-12, 128, 256) has become (0, 128, 255) and the
\* string returned is '#0080FF'.
C30_Witness ==
    /\ op = "irgb_string_from_irgb"
    /\ arg = <<-12, 128, 256>>
    /\ rgb = <<0, 128, 255>>
    /\ ret.value = <<"#", "0", "0", "8", "0", "F", "F">>

=============================================================================
